---- MODULE Spec2Model ----
(***************************************************************************)
(* Verification model of the Blender asset pipeline scripts                *)
(* (BlenderPipeline/scripts): the bone-proximity skin binder, the keyframe *)
(* animation authoring, the two humanoid pipeline scripts and the asset    *)
(* generators.                                                             *)
(*                                                                         *)
(* Units.  Coordinates are integers in centimetres (the scripts work in    *)
(* metres: 0.95 is 95).  Vertex weights are in tenths (1.0 is 10).         *)
(* Rotations are in tenths of a degree (-1.5 degrees is -15), offsets of   *)
(* pose bones in centimetres.  Distances are kept as exact fractions, so   *)
(* the binder is checked in exact arithmetic; the float32 behaviour of the *)
(* return expression of closest_point_on_segment is modelled separately    *)
(* (the f32 operators).                                                    *)
(***************************************************************************)
EXTENDS Integers, Sequences, FiniteSets, TLC

\* ------------------------------------------------------------------------
\* Bounds of the model
\* ------------------------------------------------------------------------
MaxBones == 2
MaxVerts == 2
MaxMissing == 1
MaxParts == 3

VARIABLES
    arm_bones,      \* arm_obj.data.bones: sequence of [name, head, tail]
    verts,          \* mesh_obj.data.vertices, world space (matrix_world @ v.co)
    vertex_groups,  \* mesh_obj.vertex_groups: sequence of group names
    v_groups,       \* v.groups: vertex index -> set of [group, weight]
    bpc,            \* position inside assign_weights_by_bones
    vi,             \* index of the vertex the binder loop is at
    seg,            \* one float32 call of closest_point_on_segment
    script,         \* the script (or generator function) that runs
    pc,             \* its position
    input_file,     \* what is at INPUT_PATH when the script starts
    scene_objects,  \* bpy.data.objects
    arm_obj,        \* the armature object the script holds, or None
    mesh_obj,       \* the mesh object the script holds, or None
    mesh_parent,    \* mesh_obj.parent
    mesh_modifiers, \* mesh_obj.modifiers
    exit_status,    \* None while running, then the exit status "0" or "1"
    output_written, \* the script has written OUTPUT_PATH
    pose,           \* arm_obj.pose.bones: name -> rotation and location
    actions,        \* bpy.data.actions: name -> set of keyframes
    active_action,  \* arm_obj.animation_data.action
    nla_tracks,     \* arm_obj.animation_data.nla_tracks
    clip,           \* index of the clip generate_animations is authoring
    ci,             \* index of the next keyframe call of that clip
    gen,            \* index of the asset generator that runs, or 0
    gen_objs,       \* its objects, each the set of its corners' [part, coloured]
    gi,             \* index of the generator's next operation
    mesh_objects,   \* the mesh objects a generator helper works on
    active_object,  \* bpy.context.active_object: index in mesh_objects, or 0
    parts,          \* the generator's list "parts": indices of mesh_objects
    tool,           \* the helper call at hand: its arguments and position
    streams,        \* the values random.Random(seed) yields, per seed
    random_draws    \* draws made from the module-level generator

bindVars == <<arm_bones, verts, vertex_groups, v_groups, bpc, vi>>

runVarsButPc == <<script, input_file, scene_objects, arm_obj, mesh_obj,
                  mesh_parent, mesh_modifiers, exit_status, output_written>>

runVars == <<pc, runVarsButPc>>

animVars == <<pose, actions, active_action, nla_tracks, clip, ci>>

genVars == <<gen, gen_objs, gi>>

toolVars == <<mesh_objects, active_object, parts, tool, streams, random_draws>>

nonBindVars == <<seg, toolVars, runVars, animVars, genVars>>

vars == <<bindVars, nonBindVars>>

\* ------------------------------------------------------------------------
\* Vectors (mathutils.Vector) over the integer lattice
\* ------------------------------------------------------------------------
VSub(u, v) == <<u[1] - v[1], u[2] - v[2], u[3] - v[3]>>

Dot(u, v) == u[1] * v[1] + u[2] * v[2] + u[3] * v[3]

Clamp(x, lo, hi) == IF x < lo THEN lo ELSE IF x > hi THEN hi ELSE x

\* 1.0 as a vertex weight, in tenths
ONE == 10

\* 1 / 1e-8, the reciprocal of the degenerate-segment epsilon
EPS_INV == 100000000

\* square centimetres per square metre
CM2 == 100 * 100

NONE == "<None>"

\* the float32 call record while no call is modelled
SegIdle == [pc |-> "idle"]

\* no script runs: the state of the variables of the pipeline scripts
RunIdle ==
    /\ script = "none"
    /\ pc = "none"
    /\ input_file = [exists |-> FALSE]
    /\ scene_objects = <<>>
    /\ arm_obj = NONE
    /\ mesh_obj = NONE
    /\ mesh_parent = NONE
    /\ mesh_modifiers = <<>>
    /\ exit_status = NONE
    /\ output_written = FALSE

AnimIdle ==
    /\ pose = <<>>
    /\ actions = <<>>
    /\ active_action = NONE
    /\ nla_tracks = <<>>
    /\ clip = 0
    /\ ci = 0

GenIdle == gen = 0 /\ gen_objs = <<>> /\ gi = 0

\* no generator helper is modelled
ToolIdle ==
    /\ mesh_objects = <<>>
    /\ active_object = 0
    /\ parts = <<>>
    /\ tool = [fn |-> "none"]
    /\ streams = <<>>
    /\ random_draws = 0

\* float('inf') as a distance: a fraction with denominator 0
INF == [num |-> 1, den |-> 0]

\* ------------------------------------------------------------------------
\* closest_point_on_segment(p, a, b)
\* The returned point is a + ab * t with t = n / d kept as a fraction:
\* n = 0, d = 1 on the degenerate branch (return a), otherwise d = length_sq
\* and n = max(0, min(d, (p - a).dot(ab))), i.e. t = max(0, min(1, dot / d)).
\* ------------------------------------------------------------------------
\* mutant: no test of length_sq, the division is made for every segment
closest_point_on_segment_undivided(p, a, b) ==
    LET ab == VSub(b, a)
        length_sq == Dot(ab, ab)
    IN  [a |-> a, ab |-> ab,
         n |-> Clamp(Dot(VSub(p, a), ab), 0, length_sq),
         d |-> length_sq]

closest_point_on_segment(p, a, b) ==
    LET ab == VSub(b, a)
        length_sq == Dot(ab, ab)
    IN  IF length_sq * (EPS_INV \div CM2) < 1
        THEN [a |-> a, ab |-> ab, n |-> 0, d |-> 1]
        ELSE [a |-> a, ab |-> ab,
              n |-> Clamp(Dot(VSub(p, a), ab), 0, length_sq),
              d |-> length_sq]

\* pt as a rational vector: numerator components over the denominator pt.d
PointNum(pt) ==
    <<pt.a[1] * pt.d + pt.ab[1] * pt.n,
      pt.a[2] * pt.d + pt.ab[2] * pt.n,
      pt.a[3] * pt.d + pt.ab[3] * pt.n>>

\* (co - pt).length, kept as the exact squared length |co - pt|^2 = num/den
\* (the square root is monotone, so '<' on lengths is '<' on the squares).
\* With pa = co - a:  |pa - ab*n/d|^2 = |pa|^2 - (2*n*(pa.ab) - n*n*|ab|^2/d)/d
\* and |ab|^2 = d on the regular branch, n = 0 on the degenerate one.
segment_dist(co, pt) ==
    LET pa == VSub(co, pt.a)
    IN  [num |-> Dot(pa, pa) * pt.d - (2 * pt.n * Dot(pa, pt.ab) - pt.n * pt.n),
         den |-> pt.d]

\* mutant: "dist <= best_dist", the last of several nearest bones wins
DistLessEq(x, y) ==
    IF y.den = 0 THEN TRUE
    ELSE IF x.den = 0 THEN FALSE
    ELSE LET qx == x.num \div x.den
             qy == y.num \div y.den
         IN  \/ qx < qy
             \/ qx = qy /\ (x.num % x.den) * y.den <= (y.num % y.den) * x.den

\* dist < best_dist on fractions (den = 0 is infinity); integer parts first,
\* so that no product leaves the 32-bit range
DistLess(x, y) ==
    IF x.den = 0 THEN FALSE
    ELSE IF y.den = 0 THEN TRUE
    ELSE LET qx == x.num \div x.den
             qy == y.num \div y.den
         IN  \/ qx < qy
             \/ qx = qy /\ (x.num % x.den) * y.den < (y.num % y.den) * x.den


\* ------------------------------------------------------------------------
\* assign_weights_by_bones(mesh_obj, arm_obj)
\* ------------------------------------------------------------------------
\* mutant: Root is a candidate like every other bone
bone_data_of_with_root(bones) == bones

\* bone_data: (bone_name, head, tail) of every bone but Root, in the
\* armature's enumeration order
bone_data_of(bones) == SelectSeq(bones, LAMBDA bone : bone.name # "Root")

\* mutant: the old vertex groups are not cleared
cleared_v_groups_kept(old) == old

\* mesh_obj.vertex_groups.clear(): the groups go, and with them every
\* vertex's membership
cleared_v_groups(old) == [v \in DOMAIN old |-> {}]

\* the inner loop "for bone_name, head, tail in bone_data": i is the loop
\* position, best_bone / best_dist the loop variables
RECURSIVE nearest_bone_loop(_, _, _, _, _)
nearest_bone_loop(co, bone_data, i, best_bone, best_dist) ==
    IF i > Len(bone_data)
    THEN best_bone
    ELSE LET pt == closest_point_on_segment(co, bone_data[i].head, bone_data[i].tail)
             dist == segment_dist(co, pt)
         IN  IF DistLess(dist, best_dist)
             THEN nearest_bone_loop(co, bone_data, i + 1, bone_data[i].name, dist)
             ELSE nearest_bone_loop(co, bone_data, i + 1, best_bone, best_dist)

\* best_bone for one vertex: best_bone = None, best_dist = float('inf')
best_bone_of(co, bone_data) == nearest_bone_loop(co, bone_data, 1, NONE, INF)

\* "if best_bone: vg.add([v.index], 1.0, 'REPLACE')": the vertex's weight in
\* group best_bone becomes 1.0, its other memberships stay
vg_add_replace(groups, name, weight) ==
    {g \in groups : g.group # name} \cup {[group |-> name, weight |-> weight]}

\* mutant: no "if best_bone", the weight is added for None as well
assign_vertex_unguarded(groups, co, bone_data) ==
    vg_add_replace(groups, best_bone_of(co, bone_data), ONE)

assign_vertex(groups, co, bone_data) ==
    LET best_bone == best_bone_of(co, bone_data)
    IN  IF best_bone # NONE /\ best_bone # ""
        THEN vg_add_replace(groups, best_bone, ONE)
        ELSE groups

\* the whole function in one step, as the pipeline scripts call it
RECURSIVE assign_loop(_, _, _, _)
assign_loop(vg, vs, bone_data, i) ==
    IF i > Len(vs)
    THEN vg
    ELSE assign_loop([vg EXCEPT ![i] = assign_vertex(vg[i], vs[i], bone_data)],
                     vs, bone_data, i + 1)

assign_weights_by_bones(old, vs, bones) ==
    [vertex_groups |-> [i \in 1..Len(bone_data_of(bones)) |-> bone_data_of(bones)[i].name],
     v_groups |-> assign_loop(cleared_v_groups(old), vs, bone_data_of(bones), 1)]

\* ------------------------------------------------------------------------
\* assign_weights_by_bones(mesh_obj, arm_obj) of generate_animations.py, the
\* copy of the binder that rebuilds the groups after the glTF round trip
\* ------------------------------------------------------------------------
\* mutant: the copy does not skip Root
anim_bone_data_of_with_root(bones) == bones

\* "if bone.name == 'Root': continue"
anim_bone_data_of(bones) == SelectSeq(bones, LAMBDA bone : bone.name # "Root")

anim_closest_point_on_segment(p, a, b) ==
    LET ab == VSub(b, a)
        length_sq == Dot(ab, ab)
    IN  IF length_sq * (EPS_INV \div CM2) < 1
        THEN [a |-> a, ab |-> ab, n |-> 0, d |-> 1]
        ELSE [a |-> a, ab |-> ab,
              n |-> Clamp(Dot(VSub(p, a), ab), 0, length_sq),
              d |-> length_sq]

\* mutant: the copy compares with "<=", the last of the nearest bones wins
RECURSIVE anim_nearest_bone_loop_last_wins(_, _, _, _, _)
anim_nearest_bone_loop_last_wins(co, bone_data, i, best_bone, best_dist) ==
    IF i > Len(bone_data)
    THEN best_bone
    ELSE LET pt == anim_closest_point_on_segment(co, bone_data[i].head,
                                                 bone_data[i].tail)
             dist == segment_dist(co, pt)
         IN  IF DistLessEq(dist, best_dist)
             THEN anim_nearest_bone_loop_last_wins(co, bone_data, i + 1,
                                                   bone_data[i].name, dist)
             ELSE anim_nearest_bone_loop_last_wins(co, bone_data, i + 1,
                                                   best_bone, best_dist)

RECURSIVE anim_nearest_bone_loop(_, _, _, _, _)
anim_nearest_bone_loop(co, bone_data, i, best_bone, best_dist) ==
    IF i > Len(bone_data)
    THEN best_bone
    ELSE LET pt == anim_closest_point_on_segment(co, bone_data[i].head,
                                                 bone_data[i].tail)
             dist == segment_dist(co, pt)
         IN  IF DistLess(dist, best_dist)
             THEN anim_nearest_bone_loop(co, bone_data, i + 1, bone_data[i].name, dist)
             ELSE anim_nearest_bone_loop(co, bone_data, i + 1, best_bone, best_dist)

RECURSIVE anim_assign_loop(_, _, _, _)
anim_assign_loop(vg, vs, bone_data, i) ==
    IF i > Len(vs)
    THEN vg
    ELSE LET best_bone == anim_nearest_bone_loop(vs[i], bone_data, 1, NONE, INF)
         IN  anim_assign_loop(
                 [vg EXCEPT ![i] = IF best_bone # NONE /\ best_bone # ""
                                   THEN vg_add_replace(vg[i], best_bone, ONE)
                                   ELSE vg[i]],
                 vs, bone_data, i + 1)

anim_assign_weights_by_bones(old, vs, bones) ==
    [vertex_groups |-> [i \in 1..Len(anim_bone_data_of(bones)) |->
                           anim_bone_data_of(bones)[i].name],
     v_groups |-> anim_assign_loop(cleared_v_groups(old), vs,
                                   anim_bone_data_of(bones), 1)]

\* ------------------------------------------------------------------------
\* Specification SpecBind: assign_weights_by_bones, vertex by vertex, on
\* every small armature and mesh of the lattice
\* ------------------------------------------------------------------------
\* vertex positions in the X/Z plane: on a bone, beside one, beyond its end
Lattice == {<<0, 0, 0>>, <<1, 0, 0>>, <<0, 0, 2>>, <<1, 0, 2>>}

\* bone segments <<head, tail>>: a vertical, a horizontal and a diagonal one,
\* each in both directions, and a zero-length bone
SegPool ==
    {<<(<<0, 0, 0>>), (<<0, 0, 1>>)>>, <<(<<0, 0, 1>>), (<<0, 0, 0>>)>>,
     <<(<<0, 0, 1>>), (<<1, 0, 1>>)>>, <<(<<1, 0, 1>>), (<<0, 0, 1>>)>>,
     <<(<<0, 0, 0>>), (<<1, 0, 1>>)>>, <<(<<1, 0, 1>>), (<<0, 0, 0>>)>>,
     <<(<<0, 0, 1>>), (<<0, 0, 1>>)>>}

BoneNames == <<"A", "B", "C", "D">>

RootBone == [name |-> "Root", head |-> <<0, 0, 0>>, tail |-> <<0, 0, 1>>]

\* the vertex groups generate_humanoid writes (part-based: Chest 0.8, Spine 0.2)
HumanoidGroups == {[group |-> "Chest", weight |-> 8], [group |-> "Spine", weight |-> 2]}

\* the two-bone scenario: A (0,0,0)-(0,0,1), B (0,0,1)-(0,0,2), vertex (0.1,0,0.5)
ScenarioBones ==
    <<[name |-> "A", head |-> <<0, 0, 0>>, tail |-> <<0, 0, 100>>],
      [name |-> "B", head |-> <<0, 0, 100>>, tail |-> <<0, 0, 200>>]>>

ScenarioVerts == <<(<<10, 0, 50>>)>>

BindInit ==
    /\ \/ \E root \in BOOLEAN, k \in 0..MaxBones :
            \E segs \in [1..k -> SegPool] :
                arm_bones = (IF root THEN <<RootBone>> ELSE <<>>) \o
                            [i \in 1..k |-> [name |-> BoneNames[i],
                                             head |-> segs[i][1],
                                             tail |-> segs[i][2]]]
          /\ \E n \in 0..MaxVerts : verts \in [1..n -> Lattice]
       \/ arm_bones = ScenarioBones /\ verts = ScenarioVerts
    /\ \E prior \in {{}, HumanoidGroups} :
          /\ v_groups = [v \in 1..Len(verts) |-> prior]
          /\ vertex_groups = (IF prior = {} THEN <<>> ELSE <<"Chest", "Spine">>)
    /\ bpc = "start"
    /\ vi = 0
    /\ seg = SegIdle /\ ToolIdle
    /\ RunIdle /\ AnimIdle /\ GenIdle

\* lines 161-175: collect bone_data, clear the groups, one new group per bone
BindStart ==
    /\ bpc = "start"
    /\ vertex_groups' = [i \in 1..Len(bone_data_of(arm_bones)) |->
                            bone_data_of(arm_bones)[i].name]
    /\ v_groups' = cleared_v_groups(v_groups)
    /\ bpc' = "loop"
    /\ vi' = 1
    /\ UNCHANGED <<arm_bones, verts>>
    /\ UNCHANGED nonBindVars

\* lines 187-199: one iteration of "for v in mesh_obj.data.vertices"
BindVertex ==
    /\ bpc = "loop"
    /\ vi <= Len(verts)
    /\ v_groups' = [v_groups EXCEPT
                      ![vi] = assign_vertex(v_groups[vi], verts[vi],
                                            bone_data_of(arm_bones))]
    /\ vi' = vi + 1
    /\ UNCHANGED <<arm_bones, verts, vertex_groups, bpc>>
    /\ UNCHANGED nonBindVars

\* the loop is exhausted: the function returns
BindReturn ==
    /\ bpc = "loop"
    /\ vi > Len(verts)
    /\ bpc' = "done"
    /\ UNCHANGED <<arm_bones, verts, vertex_groups, v_groups, vi>>
    /\ UNCHANGED nonBindVars

\* the binder of generate_animations runs on the mesh and the armature that
\* the binder of rig_and_export has bound (import_rigged_model, line 151)
BindAgain ==
    /\ bpc = "done"
    /\ LET r == anim_assign_weights_by_bones(v_groups, verts, arm_bones)
       IN  vertex_groups' = r.vertex_groups /\ v_groups' = r.v_groups
    /\ bpc' = "rebound"
    /\ UNCHANGED <<arm_bones, verts, vi>>
    /\ UNCHANGED nonBindVars

BindNext == BindStart \/ BindVertex \/ BindReturn \/ BindAgain

SpecBind == BindInit /\ [][BindNext]_vars


\* ------------------------------------------------------------------------
\* Claims on the skin binder
\* ------------------------------------------------------------------------
Range(f) == {f[i] : i \in DOMAIN f}

HasCandidateBone == \E i \in DOMAIN arm_bones : arm_bones[i].name # "Root"

\* the vertices the loop has passed
Bound == IF bpc = "start" THEN {} ELSE {v \in DOMAIN verts : v < vi}

\* x < y on the fractions num/den (den > 0), for stating the claims
FracLess(x, y) ==
    \/ x.num \div x.den < y.num \div y.den
    \/ /\ x.num \div x.den = y.num \div y.den
       /\ (x.num % x.den) * y.den < (y.num % y.den) * x.den

\* the distance of vertex v to candidate bone i of bone_data
BoneDist(v, i) ==
    LET bd == bone_data_of(arm_bones)
    IN  segment_dist(verts[v], closest_point_on_segment(verts[v], bd[i].head, bd[i].tail))

\* C1: once assign_weights_by_bones has passed a vertex of a mesh bound to an
\* armature with at least one bone other than Root, the vertex belongs to
\* exactly one vertex group, a group of the mesh, with weight exactly 1.0; when
\* the function has returned this holds of every vertex.
C1_ExactlyOneGroup ==
    HasCandidateBone =>
        /\ \A v \in Bound :
              /\ Cardinality(v_groups[v]) = 1
              /\ \A g \in v_groups[v] :
                    g.weight = ONE /\ g.group \in Range(vertex_groups)
        /\ bpc = "done" => Bound = DOMAIN verts

C1_Witness ==
    /\ bpc = "done"
    /\ Len(verts) = 2
    /\ Len(arm_bones) = 3
    /\ arm_bones[1].name = "Root"
    /\ v_groups[1] # v_groups[2]

\* C2: the bone a vertex is bound to is the first bone of the enumeration
\* order among those at minimum point-to-segment distance: no candidate is
\* nearer, and every candidate before it is strictly farther.  In the two-bone
\* scenario A (0,0,0)-(0,0,1), B (0,0,1)-(0,0,2) the vertex (0.1, 0, 0.5)
\* binds to A.
C2_FirstNearestBone ==
    /\ \A v \in Bound : \A g \in v_groups[v] :
          \E j \in DOMAIN bone_data_of(arm_bones) :
              /\ bone_data_of(arm_bones)[j].name = g.group
              /\ \A i \in DOMAIN bone_data_of(arm_bones) :
                    /\ ~FracLess(BoneDist(v, i), BoneDist(v, j))
                    /\ i < j => FracLess(BoneDist(v, j), BoneDist(v, i))
    /\ (bpc = "done" /\ arm_bones = ScenarioBones /\ verts = ScenarioVerts)
          => v_groups[1] = {[group |-> "A", weight |-> ONE]}

\* a tie between two bones, resolved for the first one
C2_Witness ==
    /\ bpc = "done"
    /\ Len(verts) >= 1
    /\ Len(bone_data_of(arm_bones)) = 2
    /\ BoneDist(1, 1) = BoneDist(1, 2)
    /\ bone_data_of(arm_bones)[1].head # bone_data_of(arm_bones)[2].head
    /\ v_groups[1] = {[group |-> bone_data_of(arm_bones)[1].name, weight |-> ONE]}

\* the vertex groups a mesh can carry into the binder: none, the part-based
\* groups of generate_humanoid, one bone's group at full weight
PriorGroupings ==
    {{}, HumanoidGroups, {[group |-> "A", weight |-> ONE]},
     {[group |-> "B", weight |-> ONE], [group |-> "Chest", weight |-> 8]}}

\* the second run of the binder leaves the assignment as the first made it
C11_RebindChangesNothing ==
    (bpc = "done" /\ bpc' = "rebound")
        => (v_groups' = v_groups /\ vertex_groups' = vertex_groups)

\* what the binder has returned is what it returns from any prior groups
C11_PriorGroupsIrrelevant ==
    bpc \in {"done", "rebound"} =>
        \A prior \in PriorGroupings :
            LET old == [v \in DOMAIN verts |-> prior]
            IN  /\ assign_weights_by_bones(old, verts, arm_bones)
                      = [vertex_groups |-> vertex_groups, v_groups |-> v_groups]
                /\ anim_assign_weights_by_bones(old, verts, arm_bones)
                      = [vertex_groups |-> vertex_groups, v_groups |-> v_groups]

Bone(name, head, tail, parent) ==
    [name |-> name, head |-> head, tail |-> tail, parent |-> parent]

BONES ==
    <<Bone("Root", <<0, 0, 0>>, <<0, 0, 10>>, NONE),
      Bone("Hips", <<0, 0, 90>>, <<0, 0, 95>>, "Root"),
      Bone("Spine", <<0, 0, 95>>, <<0, 0, 110>>, "Hips"),
      Bone("Chest", <<0, 0, 110>>, <<0, 0, 130>>, "Spine"),
      Bone("Neck", <<0, 0, 146>>, <<0, 0, 152>>, "Chest"),
      Bone("Head", <<0, 0, 152>>, <<0, 0, 175>>, "Neck"),
      Bone("Shoulder_L", <<15, 0, 142>>, <<30, 0, 140>>, "Chest"),
      Bone("UpperArm_L", <<30, 0, 140>>, <<56, 0, 138>>, "Shoulder_L"),
      Bone("LowerArm_L", <<56, 0, 138>>, <<84, 0, 138>>, "UpperArm_L"),
      Bone("Hand_L", <<84, 0, 138>>, <<98, 0, 138>>, "LowerArm_L"),
      Bone("Shoulder_R", <<-15, 0, 142>>, <<-30, 0, 140>>, "Chest"),
      Bone("UpperArm_R", <<-30, 0, 140>>, <<-56, 0, 138>>, "Shoulder_R"),
      Bone("LowerArm_R", <<-56, 0, 138>>, <<-84, 0, 138>>, "UpperArm_R"),
      Bone("Hand_R", <<-84, 0, 138>>, <<-98, 0, 138>>, "LowerArm_R"),
      Bone("UpperLeg_L", <<12, 0, 88>>, <<12, 0, 50>>, "Hips"),
      Bone("LowerLeg_L", <<12, 0, 50>>, <<12, 0, 8>>, "UpperLeg_L"),
      Bone("Foot_L", <<12, 0, 8>>, <<12, 15, 2>>, "LowerLeg_L"),
      Bone("UpperLeg_R", <<-12, 0, 88>>, <<-12, 0, 50>>, "Hips"),
      Bone("LowerLeg_R", <<-12, 0, 50>>, <<-12, 0, 8>>, "UpperLeg_R"),
      Bone("Foot_R", <<-12, 0, 8>>, <<-12, 15, 2>>, "LowerLeg_R")>>

\* ------------------------------------------------------------------------
\* closest_point_on_segment in float32 (mathutils.Vector components)
\*
\* A float32 value x with 2^-4 <= |x| < 16, or x = 0, is the integer
\* x * 2^27.  Sums and differences of such values are integers too, and the
\* float32 result of + and - is that integer rounded to 24 significant bits,
\* ties to even.  The model follows the bones whose head and tail share X
\* and Y (the spine chain and the legs) and a vertex on the bone's line:
\* the X and Y components of "a + ab * t" are then a's own (ab is 0 there),
\* and Z is computed below.  Vector.dot and length_squared accumulate in
\* double, where the product of two float32 values is exact, so the
\* comparisons of dot with 0 and with length_sq are comparisons of pa with
\* 0 and with ab.  A projection strictly inside the segment needs the
\* rounded quotient dot / length_sq and is outside this model.
\* ------------------------------------------------------------------------
\* Vector(head).z as float32: the literal in centimetres -> float32 * 2^27
F32_Z ==
    (0 :> 0) @@ (8 :> 10737418) @@ (10 :> 13421773) @@ (50 :> 67108864)
    @@ (88 :> 118111600) @@ (90 :> 120795952) @@ (95 :> 127506840)
    @@ (110 :> 147639504) @@ (130 :> 174483040) @@ (146 :> 195957888)
    @@ (152 :> 204010944) @@ (175 :> 234881024)

\* 1e-4 as a multiple of 2^-27, rounded down: ab * ab < 1e-8 iff |ab| <= F32_EPS
F32_EPS == 13421

Abs(n) == IF n < 0 THEN -n ELSE n

\* the unit in the last place of a magnitude n: the least power of two u
\* with n / u < 2^24
RECURSIVE F32Ulp(_, _)
F32Ulp(n, u) == IF n \div u < 2^24 THEN u ELSE F32Ulp(n, 2 * u)

\* round to nearest float32, ties to even
F32Round(n) ==
    LET m == Abs(n)
        u == F32Ulp(m, 1)
        q == m \div u
        r == m % u
        up == 2 * r > u \/ (2 * r = u /\ q % 2 = 1)
        mag == (IF up THEN q + 1 ELSE q) * u
    IN  IF n < 0 THEN -mag ELSE mag

f32_sub(x, y) == F32Round(x - y)

f32_add(x, y) == F32Round(x + y)

\* where the unclamped parameter (p - a).dot(ab) / length_sq lies
f32_side(pa, ab) ==
    IF pa = 0 THEN "zero"
    ELSE IF (pa < 0) # (ab < 0) THEN "below"
    ELSE IF Abs(pa) > Abs(ab) THEN "above"
    ELSE IF pa = ab THEN "one"
    ELSE "inside"

\* the Z component of closest_point_on_segment(p, a, b), t clamped to 0 or 1
f32_closest_point_on_segment(p, a, b) ==
    LET ab == f32_sub(b, a)
    IN  IF Abs(ab) <= F32_EPS
        THEN [side |-> "degenerate", t |-> 0, pt |-> a]
        ELSE LET side == f32_side(f32_sub(p, a), ab)
                 t == IF side \in {"zero", "below"} THEN 0 ELSE 1
             IN  [side |-> side, t |-> t, pt |-> f32_add(a, ab * t)]

\* the bones along Z, as <<head.z, tail.z>> in centimetres
VerticalBones ==
    {<<BONES[i].head[3], BONES[i].tail[3]>> : i \in
        {j \in DOMAIN BONES : /\ BONES[j].head[1] = BONES[j].tail[1]
                              /\ BONES[j].head[2] = BONES[j].tail[2]}}

\* Specification SpecSeg: one call per vertical bone, or a zero-length bone
\* at its head, and per vertex height of the table that does not project
\* strictly inside the bone
SegInit ==
    /\ \E hb \in VerticalBones, zero \in BOOLEAN, pz \in DOMAIN F32_Z :
          LET a == F32_Z[hb[1]]
              b == IF zero THEN a ELSE F32_Z[hb[2]]
          IN  /\ f32_closest_point_on_segment(F32_Z[pz], a, b).side # "inside"
              /\ seg = [pc |-> "call", a |-> a, b |-> b, p |-> F32_Z[pz]]
    /\ arm_bones = <<>>
    /\ verts = <<>>
    /\ vertex_groups = <<>>
    /\ v_groups = <<>>
    /\ bpc = "uncalled"
    /\ vi = 0
    /\ RunIdle /\ AnimIdle /\ GenIdle /\ ToolIdle

SegCall ==
    /\ seg.pc = "call"
    /\ LET r == f32_closest_point_on_segment(seg.p, seg.a, seg.b)
       IN  seg' = [pc |-> "returned", a |-> seg.a, b |-> seg.b, p |-> seg.p,
                   side |-> r.side, t |-> r.t, pt |-> r.pt]
    /\ UNCHANGED <<bindVars, toolVars, runVars, animVars, genVars>>

SegNext == SegCall

SpecSeg == SegInit /\ [][SegNext]_vars

\* C3: for a segment of squared length at least 1e-8, when the unclamped
\* projection parameter is below 0 the point closest_point_on_segment returns
\* is exactly a, and when it is above 1 it is exactly b.
C3_ClampsToEndpointExactly ==
    (seg.pc = "returned" /\ seg.side # "degenerate") =>
        /\ seg.side = "below" => seg.pt = seg.a
        /\ seg.side = "above" => seg.pt = seg.b

\* ------------------------------------------------------------------------
\* generate_animations: the keyframe calls of the four clips, in the order
\* the script makes them.  Rot(bone, rx, ry, rz, frame) is
\* set_bone_rotation(arm_obj, bone, rx_deg, ry_deg, rz_deg, frame) with the
\* angles in tenths of a degree; Loc(bone, x, y, z, frame) is
\* set_bone_location(arm_obj, bone, x, y, z, frame) with the offset in
\* centimetres.
\* ------------------------------------------------------------------------
Rot(bone, rx, ry, rz, frame) ==
    [fn |-> "set_bone_rotation", bone |-> bone, v |-> <<rx, ry, rz>>, frame |-> frame]

Loc(bone, x, y, z, frame) ==
    [fn |-> "set_bone_location", bone |-> bone, v |-> <<x, y, z>>, frame |-> frame]

\* create_idle
IdleCalls ==
    <<Rot("Spine", 0, 0, 0, 1),
      Rot("Chest", 0, 0, 0, 1),
      Rot("Head", 0, 0, 0, 1),
      Rot("UpperArm_L", 0, 0, 0, 1),
      Rot("UpperArm_R", 0, 0, 0, 1),
      Rot("Spine", 0, 0, 0, 60),
      Rot("Chest", 0, 0, 0, 60),
      Rot("Head", 0, 0, 0, 60),
      Rot("UpperArm_L", 0, 0, 0, 60),
      Rot("UpperArm_R", 0, 0, 0, 60),
      Rot("Spine", 20, 0, 0, 30),
      Rot("Chest", -15, 0, 0, 30),
      Rot("Head", -10, 0, 0, 30),
      Rot("UpperArm_L", 0, 0, 10, 30),
      Rot("UpperArm_R", 0, 0, -10, 30)>>

\* create_walk
WalkCalls ==
    <<Rot("UpperLeg_L", -250, 0, 0, 1),
      Rot("LowerLeg_L", 50, 0, 0, 1),
      Rot("Foot_L", 100, 0, 0, 1),
      Rot("UpperLeg_R", 200, 0, 0, 1),
      Rot("LowerLeg_R", 350, 0, 0, 1),
      Rot("Foot_R", -50, 0, 0, 1),
      Rot("UpperArm_L", 150, 0, 0, 1),
      Rot("LowerArm_L", -100, 0, 0, 1),
      Rot("UpperArm_R", -150, 0, 0, 1),
      Rot("LowerArm_R", -150, 0, 0, 1),
      Rot("Spine", 20, 30, 0, 1),
      Rot("Chest", 0, -30, 0, 1),
      Loc("Hips", 0, 0, -2, 1),
      Rot("UpperLeg_L", -250, 0, 0, 30),
      Rot("LowerLeg_L", 50, 0, 0, 30),
      Rot("Foot_L", 100, 0, 0, 30),
      Rot("UpperLeg_R", 200, 0, 0, 30),
      Rot("LowerLeg_R", 350, 0, 0, 30),
      Rot("Foot_R", -50, 0, 0, 30),
      Rot("UpperArm_L", 150, 0, 0, 30),
      Rot("LowerArm_L", -100, 0, 0, 30),
      Rot("UpperArm_R", -150, 0, 0, 30),
      Rot("LowerArm_R", -150, 0, 0, 30),
      Rot("Spine", 20, 30, 0, 30),
      Rot("Chest", 0, -30, 0, 30),
      Loc("Hips", 0, 0, -2, 30),
      Rot("UpperLeg_L", 0, 0, 0, 8),
      Rot("LowerLeg_L", 300, 0, 0, 8),
      Rot("Foot_L", -150, 0, 0, 8),
      Rot("UpperLeg_R", 0, 0, 0, 8),
      Rot("LowerLeg_R", 50, 0, 0, 8),
      Rot("Foot_R", 0, 0, 0, 8),
      Rot("UpperArm_L", 0, 0, 0, 8),
      Rot("LowerArm_L", -50, 0, 0, 8),
      Rot("UpperArm_R", 0, 0, 0, 8),
      Rot("LowerArm_R", -50, 0, 0, 8),
      Rot("Spine", 20, 0, 0, 8),
      Rot("Chest", 0, 0, 0, 8),
      Loc("Hips", 0, 0, 1, 8),
      Rot("UpperLeg_L", 200, 0, 0, 15),
      Rot("LowerLeg_L", 350, 0, 0, 15),
      Rot("Foot_L", -50, 0, 0, 15),
      Rot("UpperLeg_R", -250, 0, 0, 15),
      Rot("LowerLeg_R", 50, 0, 0, 15),
      Rot("Foot_R", 100, 0, 0, 15),
      Rot("UpperArm_L", -150, 0, 0, 15),
      Rot("LowerArm_L", -150, 0, 0, 15),
      Rot("UpperArm_R", 150, 0, 0, 15),
      Rot("LowerArm_R", -100, 0, 0, 15),
      Rot("Spine", 20, -30, 0, 15),
      Rot("Chest", 0, 30, 0, 15),
      Loc("Hips", 0, 0, -2, 15),
      Rot("UpperLeg_L", 0, 0, 0, 23),
      Rot("LowerLeg_L", 50, 0, 0, 23),
      Rot("Foot_L", 0, 0, 0, 23),
      Rot("UpperLeg_R", 0, 0, 0, 23),
      Rot("LowerLeg_R", 300, 0, 0, 23),
      Rot("Foot_R", -150, 0, 0, 23),
      Rot("UpperArm_L", 0, 0, 0, 23),
      Rot("LowerArm_L", -50, 0, 0, 23),
      Rot("UpperArm_R", 0, 0, 0, 23),
      Rot("LowerArm_R", -50, 0, 0, 23),
      Rot("Spine", 20, 0, 0, 23),
      Rot("Chest", 0, 0, 0, 23),
      Loc("Hips", 0, 0, 1, 23)>>

\* create_run
RunCalls ==
    <<Rot("UpperLeg_L", -400, 0, 0, 1),
      Rot("LowerLeg_L", 100, 0, 0, 1),
      Rot("Foot_L", 150, 0, 0, 1),
      Rot("UpperLeg_R", 300, 0, 0, 1),
      Rot("LowerLeg_R", 500, 0, 0, 1),
      Rot("Foot_R", -100, 0, 0, 1),
      Rot("UpperArm_L", 250, 0, 0, 1),
      Rot("LowerArm_L", -200, 0, 0, 1),
      Rot("UpperArm_R", -300, 0, 0, 1),
      Rot("LowerArm_R", -250, 0, 0, 1),
      Rot("Spine", 50, 50, 0, 1),
      Rot("Chest", -30, -50, 0, 1),
      Loc("Hips", 0, 0, -3, 1),
      Rot("UpperLeg_L", -400, 0, 0, 20),
      Rot("LowerLeg_L", 100, 0, 0, 20),
      Rot("Foot_L", 150, 0, 0, 20),
      Rot("UpperLeg_R", 300, 0, 0, 20),
      Rot("LowerLeg_R", 500, 0, 0, 20),
      Rot("Foot_R", -100, 0, 0, 20),
      Rot("UpperArm_L", 250, 0, 0, 20),
      Rot("LowerArm_L", -200, 0, 0, 20),
      Rot("UpperArm_R", -300, 0, 0, 20),
      Rot("LowerArm_R", -250, 0, 0, 20),
      Rot("Spine", 50, 50, 0, 20),
      Rot("Chest", -30, -50, 0, 20),
      Loc("Hips", 0, 0, -3, 20),
      Rot("UpperLeg_L", 50, 0, 0, 5),
      Rot("LowerLeg_L", 450, 0, 0, 5),
      Rot("Foot_L", -200, 0, 0, 5),
      Rot("UpperLeg_R", -50, 0, 0, 5),
      Rot("LowerLeg_R", 100, 0, 0, 5),
      Rot("Foot_R", 0, 0, 0, 5),
      Rot("UpperArm_L", 0, 0, 0, 5),
      Rot("LowerArm_L", -100, 0, 0, 5),
      Rot("UpperArm_R", 0, 0, 0, 5),
      Rot("LowerArm_R", -100, 0, 0, 5),
      Rot("Spine", 50, 0, 0, 5),
      Rot("Chest", -30, 0, 0, 5),
      Loc("Hips", 0, 0, 2, 5),
      Rot("UpperLeg_L", 300, 0, 0, 10),
      Rot("LowerLeg_L", 500, 0, 0, 10),
      Rot("Foot_L", -100, 0, 0, 10),
      Rot("UpperLeg_R", -400, 0, 0, 10),
      Rot("LowerLeg_R", 100, 0, 0, 10),
      Rot("Foot_R", 150, 0, 0, 10),
      Rot("UpperArm_L", -300, 0, 0, 10),
      Rot("LowerArm_L", -250, 0, 0, 10),
      Rot("UpperArm_R", 250, 0, 0, 10),
      Rot("LowerArm_R", -200, 0, 0, 10),
      Rot("Spine", 50, -50, 0, 10),
      Rot("Chest", -30, 50, 0, 10),
      Loc("Hips", 0, 0, -3, 10),
      Rot("UpperLeg_L", -50, 0, 0, 15),
      Rot("LowerLeg_L", 100, 0, 0, 15),
      Rot("Foot_L", 0, 0, 0, 15),
      Rot("UpperLeg_R", 50, 0, 0, 15),
      Rot("LowerLeg_R", 450, 0, 0, 15),
      Rot("Foot_R", -200, 0, 0, 15),
      Rot("UpperArm_L", 0, 0, 0, 15),
      Rot("LowerArm_L", -100, 0, 0, 15),
      Rot("UpperArm_R", 0, 0, 0, 15),
      Rot("LowerArm_R", -100, 0, 0, 15),
      Rot("Spine", 50, 0, 0, 15),
      Rot("Chest", -30, 0, 0, 15),
      Loc("Hips", 0, 0, 2, 15)>>

\* create_jump
JumpCalls ==
    <<Rot("Spine", 0, 0, 0, 1),
      Rot("UpperLeg_L", 0, 0, 0, 1),
      Rot("UpperLeg_R", 0, 0, 0, 1),
      Rot("LowerLeg_L", 0, 0, 0, 1),
      Rot("LowerLeg_R", 0, 0, 0, 1),
      Rot("UpperArm_L", 0, 0, 0, 1),
      Rot("UpperArm_R", 0, 0, 0, 1),
      Loc("Hips", 0, 0, 0, 1),
      Rot("Spine", 150, 0, 0, 6),
      Rot("UpperLeg_L", -300, 0, 0, 6),
      Rot("UpperLeg_R", -300, 0, 0, 6),
      Rot("LowerLeg_L", 500, 0, 0, 6),
      Rot("LowerLeg_R", 500, 0, 0, 6),
      Rot("Foot_L", -150, 0, 0, 6),
      Rot("Foot_R", -150, 0, 0, 6),
      Rot("UpperArm_L", 200, 0, 0, 6),
      Rot("UpperArm_R", 200, 0, 0, 6),
      Rot("LowerArm_L", -200, 0, 0, 6),
      Rot("LowerArm_R", -200, 0, 0, 6),
      Loc("Hips", 0, 0, -10, 6),
      Rot("Spine", -100, 0, 0, 10),
      Rot("UpperLeg_L", 100, 0, 0, 10),
      Rot("UpperLeg_R", 100, 0, 0, 10),
      Rot("LowerLeg_L", 50, 0, 0, 10),
      Rot("LowerLeg_R", 50, 0, 0, 10),
      Rot("Foot_L", 150, 0, 0, 10),
      Rot("Foot_R", 150, 0, 0, 10),
      Rot("UpperArm_L", -400, 0, 0, 10),
      Rot("UpperArm_R", -400, 0, 0, 10),
      Rot("LowerArm_L", -50, 0, 0, 10),
      Rot("LowerArm_R", -50, 0, 0, 10),
      Loc("Hips", 0, 0, 5, 10),
      Rot("Spine", -50, 0, 0, 16),
      Rot("UpperLeg_L", -150, 0, 0, 16),
      Rot("UpperLeg_R", -150, 0, 0, 16),
      Rot("LowerLeg_L", 250, 0, 0, 16),
      Rot("LowerLeg_R", 250, 0, 0, 16),
      Rot("Foot_L", 0, 0, 0, 16),
      Rot("Foot_R", 0, 0, 0, 16),
      Rot("UpperArm_L", -200, 0, -150, 16),
      Rot("UpperArm_R", -200, 0, 150, 16),
      Rot("LowerArm_L", -100, 0, 0, 16),
      Rot("LowerArm_R", -100, 0, 0, 16),
      Loc("Hips", 0, 0, 3, 16),
      Rot("Spine", 100, 0, 0, 22),
      Rot("UpperLeg_L", -200, 0, 0, 22),
      Rot("UpperLeg_R", -200, 0, 0, 22),
      Rot("LowerLeg_L", 350, 0, 0, 22),
      Rot("LowerLeg_R", 350, 0, 0, 22),
      Rot("Foot_L", -100, 0, 0, 22),
      Rot("Foot_R", -100, 0, 0, 22),
      Rot("UpperArm_L", 100, 0, 0, 22),
      Rot("UpperArm_R", 100, 0, 0, 22),
      Rot("LowerArm_L", -150, 0, 0, 22),
      Rot("LowerArm_R", -150, 0, 0, 22),
      Loc("Hips", 0, 0, -6, 22),
      Rot("Spine", 0, 0, 0, 30),
      Rot("UpperLeg_L", 0, 0, 0, 30),
      Rot("UpperLeg_R", 0, 0, 0, 30),
      Rot("LowerLeg_L", 0, 0, 0, 30),
      Rot("LowerLeg_R", 0, 0, 0, 30),
      Rot("Foot_L", 0, 0, 0, 30),
      Rot("Foot_R", 0, 0, 0, 30),
      Rot("UpperArm_L", 0, 0, 0, 30),
      Rot("UpperArm_R", 0, 0, 0, 30),
      Rot("LowerArm_L", 0, 0, 0, 30),
      Rot("LowerArm_R", 0, 0, 0, 30),
      Loc("Hips", 0, 0, 0, 30)>>

\* ------------------------------------------------------------------------
\* Pose bones, keyframes, actions and NLA tracks (generate_animations)
\* ------------------------------------------------------------------------
\* a pose bone at rest, as Blender creates it
REST ==
    [rotation_mode |-> "QUATERNION", rotation_euler |-> <<0, 0, 0>>,
     location |-> <<0, 0, 0>>]

\* mutant: the sign of the angle is lost
rad_unsigned(degrees) == Abs(degrees) * 1745

\* math.radians on tenths of a degree, in microradians (0.1 degree = 1745)
rad(degrees) == degrees * 1745

\* mutant: a missing bone falls back to some bone of the armature
pose_bones_get_any(p, bone_name) ==
    IF bone_name \in DOMAIN p THEN bone_name
    ELSE IF DOMAIN p = {} THEN NONE
    ELSE CHOOSE b \in DOMAIN p : TRUE

\* arm_obj.pose.bones.get(bone_name): the bone, or None
pose_bones_get(p, bone_name) ==
    IF bone_name \in DOMAIN p THEN bone_name ELSE NONE

\* mutant: frames are counted from 0
keyframe_insert_zero_based(keys, bone, data_path, frame, value) ==
    {k \in keys : ~(k.bone = bone /\ k.data_path = data_path /\ k.frame = frame - 1)}
        \cup {[bone |-> bone, data_path |-> data_path, frame |-> frame - 1,
               value |-> value]}

\* pose_bone.keyframe_insert(data_path, frame): the current value of the
\* property becomes the key of the bone's curve at that frame, in place of
\* a key that is already there
keyframe_insert(keys, bone, data_path, frame, value) ==
    {k \in keys : ~(k.bone = bone /\ k.data_path = data_path /\ k.frame = frame)}
        \cup {[bone |-> bone, data_path |-> data_path, frame |-> frame,
               value |-> value]}

\* mutant: the key is inserted before the rotation is assigned
set_bone_rotation_key_first(p, keys, bone_name, v, frame) ==
    LET pose_bone == pose_bones_get(p, bone_name)
    IN  IF pose_bone = NONE
        THEN [pose |-> p, keys |-> keys]
        ELSE [pose |-> [p EXCEPT ![pose_bone].rotation_mode = "XYZ",
                                 ![pose_bone].rotation_euler =
                                     <<rad(v[1]), rad(v[2]), rad(v[3])>>],
              keys |-> keyframe_insert(keys, pose_bone, "rotation_euler", frame,
                                       p[pose_bone].rotation_euler)]

\* set_bone_rotation(arm_obj, bone_name, rx_deg, ry_deg, rz_deg, frame) on
\* the pose p and the keys of the active action
set_bone_rotation(p, keys, bone_name, v, frame) ==
    LET pose_bone == pose_bones_get(p, bone_name)
    IN  IF pose_bone = NONE
        THEN [pose |-> p, keys |-> keys]
        ELSE LET p2 == [p EXCEPT ![pose_bone].rotation_mode = "XYZ",
                                 ![pose_bone].rotation_euler =
                                     <<rad(v[1]), rad(v[2]), rad(v[3])>>]
             IN  [pose |-> p2,
                  keys |-> keyframe_insert(keys, pose_bone, "rotation_euler", frame,
                                           p2[pose_bone].rotation_euler)]

\* mutant: the key is inserted before the location is assigned
set_bone_location_key_first(p, keys, bone_name, v, frame) ==
    LET pose_bone == pose_bones_get(p, bone_name)
    IN  IF pose_bone = NONE
        THEN [pose |-> p, keys |-> keys]
        ELSE [pose |-> [p EXCEPT ![pose_bone].location = v],
              keys |-> keyframe_insert(keys, pose_bone, "location", frame,
                                       p[pose_bone].location)]

\* set_bone_location(arm_obj, bone_name, x, y, z, frame)
set_bone_location(p, keys, bone_name, v, frame) ==
    LET pose_bone == pose_bones_get(p, bone_name)
    IN  IF pose_bone = NONE
        THEN [pose |-> p, keys |-> keys]
        ELSE LET p2 == [p EXCEPT ![pose_bone].location = v]
             IN  [pose |-> p2,
                  keys |-> keyframe_insert(keys, pose_bone, "location", frame,
                                           p2[pose_bone].location)]

\* mutant: create_action takes an action that is already there
new_action_name_first(acts, name) ==
    IF DOMAIN acts = {} THEN name ELSE CHOOSE n \in DOMAIN acts : TRUE

\* bpy.data.actions.new(name): a name in use gets a numeric suffix
new_action_name(acts, name) ==
    IF name \in DOMAIN acts THEN name \o ".001" ELSE name

\* reset_pose(arm_obj)
reset_pose(p) ==
    [b \in DOMAIN p |-> [rotation_mode |-> "XYZ", rotation_euler |-> <<0, 0, 0>>,
                         location |-> <<0, 0, 0>>]]

\* push_to_nla(arm_obj, action, name): a new track with one strip at frame 1
push_to_nla(tracks, action, name) ==
    Append(tracks, [name |-> name,
                    strips |-> <<[name |-> name, start |-> 1, action |-> action]>>])

\* the keys of one curve of an action
fcurve_keys(keys, bone, data_path) ==
    {k \in keys : k.bone = bone /\ k.data_path = data_path}

\* the value of a curve at a frame: the key at the frame; before the first
\* key the first key's value and after the last key the last one's (Blender
\* holds the end values); between two keys an interpolated value
fcurve_evaluate(keys, bone, data_path, frame) ==
    LET ks == fcurve_keys(keys, bone, data_path)
        first == CHOOSE k \in ks : \A o \in ks : k.frame <= o.frame
        last == CHOOSE k \in ks : \A o \in ks : k.frame >= o.frame
    IN  IF ks = {} THEN <<"no curve">>
        ELSE IF \E k \in ks : k.frame = frame
             THEN (CHOOSE k \in ks : k.frame = frame).value
        ELSE IF frame < first.frame THEN first.value
        ELSE IF frame > last.frame THEN last.value
        ELSE <<"interpolated">>

\* mutant: Run is Walk with its keyposes moved to the frames of Run
CLIPS_run_is_walk_retimed ==
    LET frame == (1 :> 1) @@ (8 :> 5) @@ (15 :> 10) @@ (23 :> 15) @@ (30 :> 20)
    IN  <<[name |-> "Idle", calls |-> IdleCalls, length |-> 60],
          [name |-> "Walk", calls |-> WalkCalls, length |-> 30],
          [name |-> "Run",
           calls |-> [n \in DOMAIN WalkCalls |->
                         [WalkCalls[n] EXCEPT !.frame = frame[@]]],
           length |-> 20],
          [name |-> "Jump", calls |-> JumpCalls, length |-> 30]>>

\* the four clips in the order main authors them, with their lengths in frames
CLIPS ==
    <<[name |-> "Idle", calls |-> IdleCalls, length |-> 60],
      [name |-> "Walk", calls |-> WalkCalls, length |-> 30],
      [name |-> "Run", calls |-> RunCalls, length |-> 20],
      [name |-> "Jump", calls |-> JumpCalls, length |-> 30]>>

\* ------------------------------------------------------------------------
\* The scene and the input files of rig_and_export and generate_animations
\* ------------------------------------------------------------------------
MeshObject(name, vertices, groups, parent, modifiers) ==
    [type |-> "MESH", name |-> name, vertices |-> vertices, groups |-> groups,
     parent |-> parent, modifiers |-> modifiers]

\* Blender's startup scene holds a cube
DefaultScene ==
    <<MeshObject("Cube", <<(<<100, 100, 100>>), (<<-100, -100, -100>>)>>, {},
                 NONE, <<>>)>>

\* humanoid.glb: the mesh of generate_humanoid, here three of its vertices
HumanoidVertices == <<(<<0, 0, 100>>), (<<12, 0, 30>>), (<<60, 4, 138>>)>>

EmptyObject == [type |-> "EMPTY", name |-> "Empty"]

\* what a glb file can hold besides an armature: nothing, the humanoid, the
\* humanoid under an empty, a stray one-vertex mesh before the humanoid
MeshFiles(modifiers) ==
    {<<>>,
     <<MeshObject("Humanoid", HumanoidVertices, HumanoidGroups, NONE, modifiers)>>,
     <<EmptyObject,
       MeshObject("Humanoid", HumanoidVertices, HumanoidGroups, "Empty", modifiers)>>,
     <<MeshObject("Stray", <<(<<0, 0, 0>>)>>, {}, NONE, <<>>),
       MeshObject("Humanoid", HumanoidVertices, HumanoidGroups, NONE, modifiers)>>}

NoFile == [exists |-> FALSE, objects |-> <<>>, animated |-> FALSE]

\* os.path.exists(INPUT_PATH)
input_exists(file) == file.exists

\* the first mesh object of a list of objects, or None
first_mesh(objs) ==
    LET ms == {i \in DOMAIN objs : objs[i].type = "MESH"}
    IN  IF ms = {} THEN NONE ELSE objs[CHOOSE i \in ms : \A j \in ms : i <= j].name

\* the loop of import_rigged_model: the mesh with the most vertices, the
\* first of them when several have as many
RECURSIVE largest_mesh(_, _, _)
largest_mesh(objs, i, best) ==
    IF i > Len(objs) THEN best
    ELSE IF objs[i].type = "MESH"
            /\ (best = 0 \/ Len(objs[i].vertices) > Len(objs[best].vertices))
         THEN largest_mesh(objs, i + 1, i)
         ELSE largest_mesh(objs, i + 1, best)

\* the loop of import_rigged_model: the last armature object
last_armature(objs) ==
    LET arms == {i \in DOMAIN objs : objs[i].type = "ARMATURE"}
    IN  IF arms = {} THEN 0 ELSE CHOOSE i \in arms : \A j \in arms : i >= j

\* mutant: the check "mesh_obj is None" never fires
mesh_is_none_never(m) == FALSE

\* "if mesh_obj is None"
mesh_is_none(m) == m = NONE

\* the groups of the vertices of a mesh object, and the names of its groups
groups_of(obj) == [v \in DOMAIN obj.vertices |-> obj.groups]

group_names_of(obj) == IF obj.groups = {} THEN <<>> ELSE <<"Chest", "Spine">>

\* ------------------------------------------------------------------------
\* rig_and_export.py
\* ------------------------------------------------------------------------
\* mutant: "bone.parent = bone_map[parent_name]" is left out
edit_bone_unparented(bones, i) ==
    [name |-> BONES[i].name, head |-> BONES[i].head, tail |-> BONES[i].tail,
     parent |-> NONE, use_connect |-> FALSE]

\* one iteration of the loop of create_armature over BONES
edit_bone(bones, i) ==
    LET has_parent == /\ BONES[i].parent # NONE
                      /\ \E j \in DOMAIN bones : bones[j].name = BONES[i].parent
        parent == bones[CHOOSE j \in DOMAIN bones : bones[j].name = BONES[i].parent]
        gap == VSub(BONES[i].head, parent.tail)
    IN  [name |-> BONES[i].name, head |-> BONES[i].head, tail |-> BONES[i].tail,
         parent |-> IF has_parent THEN BONES[i].parent ELSE NONE,
         use_connect |-> has_parent /\ Dot(gap, gap) < 1]

RigInit ==
    /\ script = "rig_and_export"
    /\ pc = "clear_scene"
    /\ input_file \in {NoFile} \cup
          {[exists |-> TRUE, objects |-> objs, animated |-> FALSE] :
              objs \in MeshFiles(<<>>)}
    /\ scene_objects = DefaultScene
    /\ arm_obj = NONE
    /\ mesh_obj = NONE
    /\ mesh_parent = NONE
    /\ mesh_modifiers = <<>>
    /\ exit_status = NONE
    /\ output_written = FALSE
    /\ arm_bones = <<>>
    /\ verts = <<>>
    /\ vertex_groups = <<>>
    /\ v_groups = <<>>
    /\ bpc = "uncalled"
    /\ vi = 0
    /\ seg = SegIdle /\ ToolIdle
    /\ AnimIdle /\ GenIdle

\* main: clear_scene()
RigClearScene ==
    /\ script = "rig_and_export" /\ pc = "clear_scene"
    /\ scene_objects' = <<>>
    /\ pc' = "import"
    /\ UNCHANGED <<script, input_file, arm_obj, mesh_obj, mesh_parent,
                   mesh_modifiers, exit_status, output_written>>
    /\ UNCHANGED <<bindVars, seg, toolVars, animVars, genVars>>

\* import_humanoid: the input file is not there
RigMissingInput ==
    /\ script = "rig_and_export" /\ pc = "import"
    /\ ~input_exists(input_file)
    /\ exit_status' = "1"
    /\ pc' = "exit"
    /\ UNCHANGED <<script, input_file, scene_objects, arm_obj, mesh_obj,
                   mesh_parent, mesh_modifiers, output_written>>
    /\ UNCHANGED <<bindVars, seg, toolVars, animVars, genVars>>

\* import_humanoid: the import and the search for the mesh object
RigImport ==
    /\ script = "rig_and_export" /\ pc = "import"
    /\ input_exists(input_file)
    /\ scene_objects' = scene_objects \o input_file.objects
    /\ mesh_obj' = first_mesh(scene_objects')
    /\ pc' = "check_mesh"
    /\ UNCHANGED <<script, input_file, arm_obj, mesh_parent, mesh_modifiers,
                   exit_status, output_written>>
    /\ UNCHANGED <<bindVars, seg, toolVars, animVars, genVars>>

\* import_humanoid: no mesh found
RigNoMesh ==
    /\ script = "rig_and_export" /\ pc = "check_mesh"
    /\ mesh_is_none(mesh_obj)
    /\ exit_status' = "1"
    /\ pc' = "exit"
    /\ UNCHANGED <<script, input_file, scene_objects, arm_obj, mesh_obj,
                   mesh_parent, mesh_modifiers, output_written>>
    /\ UNCHANGED <<bindVars, seg, toolVars, animVars, genVars>>

\* import_humanoid: the mesh is found; its parent empty, if any, is removed
RigMeshFound ==
    /\ script = "rig_and_export" /\ pc = "check_mesh"
    /\ ~mesh_is_none(mesh_obj)
    /\ LET ms == {i \in DOMAIN scene_objects : scene_objects[i].name = mesh_obj}
           m == IF ms = {} THEN MeshObject(NONE, <<>>, {}, NONE, <<>>)
                ELSE scene_objects[CHOOSE i \in ms : TRUE]
       IN  /\ scene_objects' = SelectSeq(scene_objects,
                                         LAMBDA o : o.name # m.parent)
           /\ verts' = m.vertices
           /\ v_groups' = groups_of(m)
           /\ vertex_groups' = group_names_of(m)
           /\ mesh_modifiers' = m.modifiers
    /\ mesh_parent' = NONE
    /\ pc' = "create_armature"
    /\ UNCHANGED <<script, input_file, arm_obj, mesh_obj, exit_status,
                   output_written>>
    /\ UNCHANGED <<arm_bones, bpc, vi, seg, toolVars, animVars, genVars>>

\* create_armature: the armature object, in edit mode
RigNewArmature ==
    /\ script = "rig_and_export" /\ pc = "create_armature"
    /\ scene_objects' = Append(scene_objects, [type |-> "ARMATURE", name |-> "Armature"])
    /\ arm_obj' = "Armature"
    /\ arm_bones' = <<>>
    /\ pc' = "edit_bones"
    /\ UNCHANGED <<script, input_file, mesh_obj, mesh_parent, mesh_modifiers,
                   exit_status, output_written>>
    /\ UNCHANGED <<verts, vertex_groups, v_groups, bpc, vi, seg, toolVars, animVars, genVars>>

\* create_armature: one bone of BONES
RigNewBone ==
    /\ script = "rig_and_export" /\ pc = "edit_bones"
    /\ Len(arm_bones) < Len(BONES)
    /\ arm_bones' = Append(arm_bones, edit_bone(arm_bones, Len(arm_bones) + 1))
    /\ UNCHANGED runVars
    /\ UNCHANGED <<verts, vertex_groups, v_groups, bpc, vi, seg, toolVars, animVars, genVars>>

\* create_armature: back to object mode; the pose bones exist from here
RigObjectMode ==
    /\ script = "rig_and_export" /\ pc = "edit_bones"
    /\ Len(arm_bones) = Len(BONES)
    /\ pose' = [b \in {arm_bones[i].name : i \in DOMAIN arm_bones} |-> REST]
    /\ pc' = "skin_mesh"
    /\ UNCHANGED <<script, input_file, scene_objects, arm_obj, mesh_obj,
                   mesh_parent, mesh_modifiers, exit_status, output_written>>
    /\ UNCHANGED <<bindVars, seg, toolVars, actions, active_action, nla_tracks, clip, ci,
                   genVars>>

\* skin_mesh: the weights, the parent, a new armature modifier
RigSkin ==
    /\ script = "rig_and_export" /\ pc = "skin_mesh"
    /\ LET r == assign_weights_by_bones(v_groups, verts, arm_bones)
       IN  vertex_groups' = r.vertex_groups /\ v_groups' = r.v_groups
    /\ bpc' = "done"
    /\ mesh_parent' = arm_obj
    /\ mesh_modifiers' = Append(mesh_modifiers, [type |-> "ARMATURE", object |-> arm_obj])
    /\ pc' = "set_rest_pose"
    /\ UNCHANGED <<script, input_file, scene_objects, arm_obj, mesh_obj,
                   exit_status, output_written>>
    /\ UNCHANGED <<arm_bones, verts, vi, seg, toolVars, animVars, genVars>>

\* set_rest_pose: the transforms of every pose bone are cleared
RigRestPose ==
    /\ script = "rig_and_export" /\ pc = "set_rest_pose"
    /\ pose' = [b \in DOMAIN pose |->
                   [pose[b] EXCEPT !.rotation_euler = <<0, 0, 0>>,
                                   !.location = <<0, 0, 0>>]]
    /\ pc' = "export"
    /\ UNCHANGED <<script, input_file, scene_objects, arm_obj, mesh_obj,
                   mesh_parent, mesh_modifiers, exit_status, output_written>>
    /\ UNCHANGED <<bindVars, seg, toolVars, actions, active_action, nla_tracks, clip, ci,
                   genVars>>

\* main: the export to OUTPUT_PATH
RigExport ==
    /\ script = "rig_and_export" /\ pc = "export"
    /\ output_written' = TRUE
    /\ exit_status' = "0"
    /\ pc' = "done"
    /\ UNCHANGED <<script, input_file, scene_objects, arm_obj, mesh_obj,
                   mesh_parent, mesh_modifiers>>
    /\ UNCHANGED <<bindVars, seg, toolVars, animVars, genVars>>

RigNext ==
    \/ RigClearScene \/ RigMissingInput \/ RigImport \/ RigNoMesh
    \/ RigMeshFound \/ RigNewArmature \/ RigNewBone \/ RigObjectMode
    \/ RigSkin \/ RigRestPose \/ RigExport

\* ------------------------------------------------------------------------
\* generate_animations.py
\* ------------------------------------------------------------------------
AllBoneNames == {BONES[i].name : i \in DOMAIN BONES}

\* the sets of at most k bones of BONES
RECURSIVE BoneSetsUpTo(_)
BoneSetsUpTo(k) ==
    IF k = 0 THEN {{}}
    ELSE LET S == BoneSetsUpTo(k - 1)
         IN  S \cup {m \cup {b} : m \in S, b \in AllBoneNames}

\* the bones of the arms and the legs
LimbBones ==
    {b \in AllBoneNames :
        b \notin {"Root", "Hips", "Spine", "Chest", "Neck", "Head"}}

\* the armatures humanoid_rigged.glb can hold: BONES without at most
\* MaxMissing bones, or without any limb
RiggedArmatures ==
    {SelectSeq(BONES, LAMBDA b : b.name \notin missing) :
        missing \in BoneSetsUpTo(MaxMissing) \cup {LimbBones}}

ArmatureObject(bones) == [type |-> "ARMATURE", name |-> "Armature", bones |-> bones]

\* a key left in the file by an earlier run
StaleKeys ==
    {[bone |-> "Root", data_path |-> "rotation_euler", frame |-> 1,
      value |-> <<rad(100), 0, 0>>]}

\* the actions and tracks of a file that an earlier run has animated
PriorActions == [n \in {"Idle", "Walk", "Run", "Jump"} |-> StaleKeys]

PriorTracks ==
    <<[name |-> "Idle", strips |-> <<[name |-> "Idle", start |-> 1, action |-> "Idle"]>>],
      [name |-> "Walk", strips |-> <<[name |-> "Walk", start |-> 1, action |-> "Walk"]>>],
      [name |-> "Run", strips |-> <<[name |-> "Run", start |-> 1, action |-> "Run"]>>],
      [name |-> "Jump", strips |-> <<[name |-> "Jump", start |-> 1, action |-> "Jump"]>>]>>

RiggedModifiers == <<[type |-> "ARMATURE", object |-> "Armature"]>>

\* humanoid_rigged.glb: missing; without an armature; with the armature of
\* BONES, any of the mesh contents, animated by an earlier run or not; with
\* any of the armatures and the humanoid mesh
AnimFiles ==
    {NoFile}
    \cup {[exists |-> TRUE, objects |-> objs, animated |-> FALSE] :
             objs \in MeshFiles(<<>>)}
    \cup {[exists |-> TRUE, objects |-> <<ArmatureObject(BONES)>> \o objs,
           animated |-> an, actions |-> PriorActions, tracks |-> PriorTracks] :
             objs \in MeshFiles(RiggedModifiers), an \in BOOLEAN}
    \cup {[exists |-> TRUE, objects |-> <<ArmatureObject(bones)>> \o objs,
           animated |-> FALSE] :
             bones \in RiggedArmatures,
             objs \in {o \in MeshFiles(RiggedModifiers) : Len(o) = 1}}

\* mutant: only the actions without users are removed
purged_actions_users_kept(acts, tracks) ==
    [n \in {m \in DOMAIN acts :
                \E i \in DOMAIN tracks : tracks[i].strips[1].action = m} |-> acts[n]]

\* "for action in list(bpy.data.actions)": an action without users is
\* removed, one with users is cleared of them and removed
purged_actions(acts, tracks) == <<>>

\* "for track in list(arm_obj.animation_data.nla_tracks): remove(track)"
cleared_nla_tracks(tracks) == <<>>

\* export_scene.gltf with export_nla_strips: one animation per NLA track,
\* named as the track, with the keys of the action of its strip; the import
\* makes of every animation an action of that name and a track with one
\* strip
gltf_animations(tracks, acts) ==
    [i \in DOMAIN tracks |->
        [name |-> tracks[i].name, keys |-> acts[tracks[i].strips[1].action]]]

gltf_actions(animations) ==
    [n \in {animations[i].name : i \in DOMAIN animations} |->
        UNION {animations[i].keys : i \in {j \in DOMAIN animations :
                                              animations[j].name = n}}]

gltf_tracks(animations) ==
    [i \in DOMAIN animations |->
        [name |-> animations[i].name,
         strips |-> <<[name |-> animations[i].name, start |-> 1,
                       action |-> animations[i].name]>>]]

AnimInit ==
    /\ script = "generate_animations"
    /\ pc = "clear_scene"
    /\ input_file \in AnimFiles
    /\ scene_objects = DefaultScene
    /\ arm_obj = NONE
    /\ mesh_obj = NONE
    /\ mesh_parent = NONE
    /\ mesh_modifiers = <<>>
    /\ exit_status = NONE
    /\ output_written = FALSE
    /\ arm_bones = <<>>
    /\ verts = <<>>
    /\ vertex_groups = <<>>
    /\ v_groups = <<>>
    /\ bpc = "uncalled"
    /\ vi = 0
    /\ seg = SegIdle /\ ToolIdle
    /\ AnimIdle /\ GenIdle

\* main: clear_scene()
AnimClearScene ==
    /\ script = "generate_animations" /\ pc = "clear_scene"
    /\ scene_objects' = <<>>
    /\ actions' = <<>>
    /\ pc' = "import"
    /\ UNCHANGED <<script, input_file, arm_obj, mesh_obj, mesh_parent,
                   mesh_modifiers, exit_status, output_written>>
    /\ UNCHANGED <<bindVars, seg, toolVars, pose, active_action, nla_tracks, clip, ci, genVars>>

\* import_rigged_model: the input file is not there
AnimMissingInput ==
    /\ script = "generate_animations" /\ pc = "import"
    /\ ~input_exists(input_file)
    /\ exit_status' = "1"
    /\ pc' = "exit"
    /\ UNCHANGED <<script, input_file, scene_objects, arm_obj, mesh_obj,
                   mesh_parent, mesh_modifiers, output_written>>
    /\ UNCHANGED <<bindVars, seg, toolVars, animVars, genVars>>

\* import_rigged_model: bpy.ops.import_scene.gltf brings in the objects of
\* the file and, when the file is animated, its actions and tracks
AnimImport ==
    /\ script = "generate_animations" /\ pc = "import"
    /\ input_exists(input_file)
    /\ scene_objects' = scene_objects \o input_file.objects
    /\ actions' = IF input_file.animated THEN input_file.actions ELSE actions
    /\ nla_tracks' = IF input_file.animated THEN input_file.tracks ELSE nla_tracks
    /\ active_action' = IF input_file.animated THEN "Jump" ELSE NONE
    /\ pc' = "find_objects"
    /\ UNCHANGED <<script, input_file, arm_obj, mesh_obj, mesh_parent,
                   mesh_modifiers, exit_status, output_written>>
    /\ UNCHANGED <<bindVars, seg, toolVars, pose, clip, ci, genVars>>

\* import_rigged_model: every mesh object but mesh_obj is removed
RECURSIVE without_stray_meshes(_, _, _)
without_stray_meshes(objs, i, keep) ==
    IF i > Len(objs) THEN <<>>
    ELSE (IF objs[i].type = "MESH" /\ i # keep THEN <<>> ELSE <<objs[i]>>)
         \o without_stray_meshes(objs, i + 1, keep)

\* import_rigged_model: the loop that picks arm_obj and mesh_obj, and the
\* removal of every other mesh object
AnimFindObjects ==
    /\ script = "generate_animations" /\ pc = "find_objects"
    /\ LET ai == last_armature(scene_objects)
           mi == largest_mesh(scene_objects, 1, 0)
       IN  /\ arm_obj' = IF ai = 0 THEN NONE ELSE scene_objects[ai].name
           /\ arm_bones' = IF ai = 0 THEN <<>> ELSE scene_objects[ai].bones
           /\ pose' = IF ai = 0 THEN pose
                      ELSE [b \in {scene_objects[ai].bones[i].name :
                                      i \in DOMAIN scene_objects[ai].bones} |->
                               IF input_file.animated
                               THEN [REST EXCEPT !.rotation_euler = <<rad(100), 0, 0>>]
                               ELSE REST]
           /\ mesh_obj' = IF mi = 0 THEN NONE ELSE scene_objects[mi].name
           /\ verts' = IF mi = 0 THEN <<>> ELSE scene_objects[mi].vertices
           /\ v_groups' = IF mi = 0 THEN <<>> ELSE groups_of(scene_objects[mi])
           /\ vertex_groups' = IF mi = 0 THEN <<>> ELSE group_names_of(scene_objects[mi])
           /\ mesh_parent' = IF mi = 0 THEN NONE ELSE scene_objects[mi].parent
           /\ mesh_modifiers' = IF mi = 0 THEN <<>> ELSE scene_objects[mi].modifiers
           /\ scene_objects' = without_stray_meshes(scene_objects, 1, mi)
    /\ pc' = "check_armature"
    /\ UNCHANGED <<script, input_file, exit_status, output_written>>
    /\ UNCHANGED <<bpc, vi, seg, toolVars, actions, active_action, nla_tracks, clip, ci, genVars>>

\* import_rigged_model: no armature found
AnimNoArmature ==
    /\ script = "generate_animations" /\ pc = "check_armature"
    /\ arm_obj = NONE
    /\ exit_status' = "1"
    /\ pc' = "exit"
    /\ UNCHANGED <<script, input_file, scene_objects, arm_obj, mesh_obj,
                   mesh_parent, mesh_modifiers, output_written>>
    /\ UNCHANGED <<bindVars, seg, toolVars, animVars, genVars>>

AnimArmatureFound ==
    /\ script = "generate_animations" /\ pc = "check_armature"
    /\ arm_obj # NONE
    /\ pc' = "check_mesh"
    /\ UNCHANGED <<script, input_file, scene_objects, arm_obj, mesh_obj,
                   mesh_parent, mesh_modifiers, exit_status, output_written>>
    /\ UNCHANGED <<bindVars, seg, toolVars, animVars, genVars>>

\* import_rigged_model: no mesh found
AnimNoMesh ==
    /\ script = "generate_animations" /\ pc = "check_mesh"
    /\ mesh_is_none(mesh_obj)
    /\ exit_status' = "1"
    /\ pc' = "exit"
    /\ UNCHANGED <<script, input_file, scene_objects, arm_obj, mesh_obj,
                   mesh_parent, mesh_modifiers, output_written>>
    /\ UNCHANGED <<bindVars, seg, toolVars, animVars, genVars>>

\* import_rigged_model: the parent, the armature modifier and the weights
AnimSkin ==
    /\ script = "generate_animations" /\ pc = "check_mesh"
    /\ ~mesh_is_none(mesh_obj)
    /\ mesh_parent' = arm_obj
    /\ mesh_modifiers' =
          IF \E i \in DOMAIN mesh_modifiers : mesh_modifiers[i].type = "ARMATURE"
          THEN LET f == CHOOSE i \in DOMAIN mesh_modifiers :
                          /\ mesh_modifiers[i].type = "ARMATURE"
                          /\ \A j \in DOMAIN mesh_modifiers :
                                mesh_modifiers[j].type = "ARMATURE" => i <= j
               IN  [mesh_modifiers EXCEPT ![f].object = arm_obj]
          ELSE Append(mesh_modifiers, [type |-> "ARMATURE", object |-> arm_obj])
    /\ LET r == anim_assign_weights_by_bones(v_groups, verts, arm_bones)
       IN  vertex_groups' = r.vertex_groups /\ v_groups' = r.v_groups
    /\ bpc' = "done"
    /\ pc' = "clear_animation"
    /\ UNCHANGED <<script, input_file, scene_objects, arm_obj, mesh_obj,
                   exit_status, output_written>>
    /\ UNCHANGED <<arm_bones, verts, vi, seg, toolVars, animVars, genVars>>

\* import_rigged_model: the imported animation data and actions are removed
AnimClearAnimation ==
    /\ script = "generate_animations" /\ pc = "clear_animation"
    /\ active_action' = NONE
    /\ nla_tracks' = cleared_nla_tracks(nla_tracks)
    /\ actions' = purged_actions(actions, nla_tracks)
    /\ clip' = 1
    /\ pc' = "create_action"
    /\ UNCHANGED runVarsButPc
    /\ UNCHANGED <<bindVars, seg, toolVars, pose, ci, genVars>>

\* create_action(arm_obj, name) of the clip at hand
AnimCreateAction ==
    /\ script = "generate_animations" /\ pc = "create_action"
    /\ LET name == new_action_name(actions, CLIPS[clip].name)
       IN  /\ actions' = actions @@ (name :> {})
           /\ active_action' = name
    /\ pc' = "reset_pose"
    /\ UNCHANGED runVarsButPc
    /\ UNCHANGED <<bindVars, seg, toolVars, pose, nla_tracks, clip, ci, genVars>>

\* reset_pose(arm_obj)
AnimResetPose ==
    /\ script = "generate_animations" /\ pc = "reset_pose"
    /\ pose' = reset_pose(pose)
    /\ ci' = 1
    /\ pc' = "keys"
    /\ UNCHANGED runVarsButPc
    /\ UNCHANGED <<bindVars, seg, toolVars, actions, active_action, nla_tracks, clip, genVars>>

\* the next call of the clip is a set_bone_rotation
AnimSetBoneRotation ==
    /\ script = "generate_animations" /\ pc = "keys"
    /\ ci <= Len(CLIPS[clip].calls)
    /\ CLIPS[clip].calls[ci].fn = "set_bone_rotation"
    /\ LET c == CLIPS[clip].calls[ci]
           r == set_bone_rotation(pose, actions[active_action], c.bone, c.v, c.frame)
       IN  /\ pose' = r.pose
           /\ actions' = [actions EXCEPT ![active_action] = r.keys]
    /\ ci' = ci + 1
    /\ UNCHANGED runVars
    /\ UNCHANGED <<bindVars, seg, toolVars, active_action, nla_tracks, clip, genVars>>

\* the next call of the clip is a set_bone_location
AnimSetBoneLocation ==
    /\ script = "generate_animations" /\ pc = "keys"
    /\ ci <= Len(CLIPS[clip].calls)
    /\ CLIPS[clip].calls[ci].fn = "set_bone_location"
    /\ LET c == CLIPS[clip].calls[ci]
           r == set_bone_location(pose, actions[active_action], c.bone, c.v, c.frame)
       IN  /\ pose' = r.pose
           /\ actions' = [actions EXCEPT ![active_action] = r.keys]
    /\ ci' = ci + 1
    /\ UNCHANGED runVars
    /\ UNCHANGED <<bindVars, seg, toolVars, active_action, nla_tracks, clip, genVars>>

\* push_to_nla(arm_obj, action, name) ends the clip
AnimPushToNla ==
    /\ script = "generate_animations" /\ pc = "keys"
    /\ ci > Len(CLIPS[clip].calls)
    /\ nla_tracks' = push_to_nla(nla_tracks, active_action, CLIPS[clip].name)
    /\ active_action' = NONE
    /\ clip' = clip + 1
    /\ pc' = IF clip = Len(CLIPS) THEN "export" ELSE "create_action"
    /\ UNCHANGED runVarsButPc
    /\ UNCHANGED <<bindVars, seg, toolVars, pose, actions, ci, genVars>>

\* main: the export to OUTPUT_PATH
AnimExport ==
    /\ script = "generate_animations" /\ pc = "export"
    /\ output_written' = TRUE
    /\ exit_status' = "0"
    /\ pc' = "done"
    /\ UNCHANGED <<script, input_file, scene_objects, arm_obj, mesh_obj,
                   mesh_parent, mesh_modifiers>>
    /\ UNCHANGED <<bindVars, seg, toolVars, animVars, genVars>>

\* the script is run a second time: INPUT_PATH is OUTPUT_PATH, so the new
\* Blender process imports what the first run has exported
AnimRunAgain ==
    /\ script = "generate_animations" /\ pc = "done"
    /\ output_written
    /\ "run" \notin DOMAIN input_file
    /\ LET animations == gltf_animations(nla_tracks, actions)
       IN  input_file' =
              [exists |-> TRUE,
               objects |-> SelectSeq(scene_objects,
                                     LAMBDA o : o.name \in {arm_obj, mesh_obj}),
               animated |-> TRUE,
               actions |-> gltf_actions(animations),
               tracks |-> gltf_tracks(animations),
               run |-> 2]
    /\ pc' = "clear_scene"
    /\ scene_objects' = DefaultScene
    /\ arm_obj' = NONE
    /\ mesh_obj' = NONE
    /\ mesh_parent' = NONE
    /\ mesh_modifiers' = <<>>
    /\ exit_status' = NONE
    /\ output_written' = FALSE
    /\ arm_bones' = <<>>
    /\ verts' = <<>>
    /\ vertex_groups' = <<>>
    /\ v_groups' = <<>>
    /\ bpc' = "uncalled"
    /\ vi' = 0
    /\ pose' = <<>>
    /\ actions' = <<>>
    /\ active_action' = NONE
    /\ nla_tracks' = <<>>
    /\ clip' = 0
    /\ ci' = 0
    /\ UNCHANGED <<script, seg, toolVars, genVars>>

AnimNext ==
    \/ AnimClearScene \/ AnimMissingInput \/ AnimImport \/ AnimFindObjects
    \/ AnimNoArmature \/ AnimArmatureFound \/ AnimNoMesh \/ AnimSkin
    \/ AnimClearAnimation \/ AnimCreateAction \/ AnimResetPose
    \/ AnimSetBoneRotation \/ AnimSetBoneLocation \/ AnimPushToNla \/ AnimExport
    \/ AnimRunAgain

SpecAnim == AnimInit /\ [][AnimNext]_vars

\* ------------------------------------------------------------------------
\* The asset generators.  A generator function is the sequence of its
\* operations on objects: add_part (a primitive becomes a new object),
\* create_part (generate_sword: a new object, coloured at once),
\* set_vertex_colors (every corner of the object at hand is coloured), join
\* (the objects become one), set_origin (the origin moves to the base) and
\* export_glb.
\* ------------------------------------------------------------------------
Times(n, ops) == [i \in 1..(n * Len(ops)) |-> ops[((i - 1) % Len(ops)) + 1]]

\* n add_part calls, join_parts, set_vertex_colors and a last operation
JoinFirst(n, last) ==
    Times(n, <<"add_part">>) \o <<"join", "set_vertex_colors", last>>

\* n parts, each coloured when it is made, then the join and the origin
PartWise(n) ==
    Times(n, <<"add_part", "set_vertex_colors">>) \o <<"join", "set_origin">>

Generator(file, fn, ops) == [script |-> file, fn |-> fn, ops |-> ops]

GENERATORS ==
    <<Generator("generate_buildings", "generate_cottage", JoinFirst(21, "set_origin")),
      Generator("generate_buildings", "generate_forge", JoinFirst(21, "set_origin")),
      Generator("generate_buildings", "generate_market_stall", JoinFirst(23, "set_origin")),
      Generator("generate_buildings", "generate_watchtower", JoinFirst(38, "set_origin")),
      Generator("generate_dungeon", "generate_cave_entrance", JoinFirst(18, "set_origin")),
      Generator("generate_dungeon", "generate_torch_sconce", JoinFirst(5, "set_origin")),
      Generator("generate_dungeon", "generate_exit_portal", JoinFirst(12, "set_origin")),
      Generator("generate_enemies", "generate_slime", JoinFirst(5, "export_glb")),
      Generator("generate_enemies", "generate_skeleton", JoinFirst(27, "export_glb")),
      Generator("generate_enemies", "generate_wolf", JoinFirst(17, "export_glb")),
      Generator("generate_humanoid", "main",
                Times(17, <<"add_part">>) \o <<"join", "set_origin", "export_glb">>),
      Generator("generate_items", "generate_health_potion", JoinFirst(4, "set_origin")),
      Generator("generate_items", "generate_shield", JoinFirst(6, "set_origin")),
      Generator("generate_items", "generate_axe", JoinFirst(6, "set_origin")),
      Generator("generate_items", "generate_helmet", JoinFirst(6, "set_origin")),
      Generator("generate_items", "generate_bone_fragment", JoinFirst(3, "set_origin")),
      Generator("generate_items", "generate_wolf_pelt", JoinFirst(7, "set_origin")),
      Generator("generate_npcs", "generate_villager", JoinFirst(17, "set_origin")),
      Generator("generate_npcs", "generate_blacksmith", JoinFirst(19, "set_origin")),
      Generator("generate_npcs", "generate_merchant", JoinFirst(13, "set_origin")),
      Generator("generate_npcs", "generate_scout", JoinFirst(22, "set_origin")),
      Generator("generate_props", "generate_campfire", JoinFirst(14, "set_origin")),
      Generator("generate_props", "generate_chest", JoinFirst(14, "set_origin")),
      Generator("generate_props", "generate_crate", JoinFirst(12, "set_origin")),
      Generator("generate_props", "generate_barrel", JoinFirst(7, "set_origin")),
      Generator("generate_props", "generate_training_dummy", JoinFirst(8, "set_origin")),
      Generator("generate_props", "generate_signpost", JoinFirst(5, "set_origin")),
      Generator("generate_rocks", "create_boulder",
                <<"add_part", "set_vertex_colors", "set_origin">>),
      Generator("generate_rocks", "create_standing_stone",
                <<"add_part", "set_vertex_colors", "set_origin">>),
      Generator("generate_rocks", "create_rock_cluster", PartWise(4)),
      Generator("generate_sword", "main",
                Times(5, <<"create_part">>) \o <<"join", "set_origin", "export_glb">>),
      Generator("generate_trees", "create_oak_tree", PartWise(6)),
      Generator("generate_trees", "create_pine_tree", PartWise(5)),
      Generator("generate_trees", "create_fantasy_tree", PartWise(7))>>

\* the operations of the generator that runs
GenOps == GENERATORS[gen].ops

\* the number of parts the generator has made before operation i
PartsBefore(ops, i) ==
    Cardinality({j \in 1..(i - 1) : ops[j] \in {"add_part", "create_part"}})

\* mutant: the join leaves the objects apart
join_none(objs) == objs

\* bpy.ops.object.join(): the selected objects become one object that holds
\* the corners, and their colours, of all of them
join(objs) == <<UNION {objs[i] : i \in DOMAIN objs}>>

\* set_vertex_colors(obj, ...): every corner of the object gets a colour
set_vertex_colors(obj) == {[part |-> c.part, coloured |-> TRUE] : c \in obj}

GenInit ==
    /\ gen \in DOMAIN GENERATORS
    /\ script = GENERATORS[gen].script
    /\ pc = "generate"
    /\ gi = 1
    /\ gen_objs = <<>>
    /\ input_file = NoFile
    /\ scene_objects = <<>>
    /\ arm_obj = NONE
    /\ mesh_obj = NONE
    /\ mesh_parent = NONE
    /\ mesh_modifiers = <<>>
    /\ exit_status = NONE
    /\ output_written = FALSE
    /\ arm_bones = <<>>
    /\ verts = <<>>
    /\ vertex_groups = <<>>
    /\ v_groups = <<>>
    /\ bpc = "uncalled"
    /\ vi = 0
    /\ seg = SegIdle /\ ToolIdle
    /\ AnimIdle

GenAtOp(op) == gen # 0 /\ pc = "generate" /\ gi <= Len(GenOps) /\ GenOps[gi] = op

\* add_part / a primitive_*_add: a new object, its corners without colour
GenAddPart ==
    /\ GenAtOp("add_part")
    /\ gen_objs' = Append(gen_objs, {[part |-> PartsBefore(GenOps, gi) + 1,
                                      coloured |-> FALSE]})
    /\ gi' = gi + 1
    /\ UNCHANGED <<bindVars, seg, toolVars, runVars, animVars, gen>>

\* generate_sword create_part: a new object, coloured in the same call
GenCreatePart ==
    /\ GenAtOp("create_part")
    /\ gen_objs' = Append(gen_objs, set_vertex_colors(
                             {[part |-> PartsBefore(GenOps, gi) + 1,
                               coloured |-> FALSE]}))
    /\ gi' = gi + 1
    /\ UNCHANGED <<bindVars, seg, toolVars, runVars, animVars, gen>>

\* set_vertex_colors on the object made last (after a join: the joined one)
GenSetVertexColors ==
    /\ GenAtOp("set_vertex_colors")
    /\ gen_objs' = [gen_objs EXCEPT ![Len(gen_objs)] = set_vertex_colors(@)]
    /\ gi' = gi + 1
    /\ UNCHANGED <<bindVars, seg, toolVars, runVars, animVars, gen>>

GenJoin ==
    /\ GenAtOp("join")
    /\ gen_objs' = join(gen_objs)
    /\ gi' = gi + 1
    /\ UNCHANGED <<bindVars, seg, toolVars, runVars, animVars, gen>>

\* set_origin_bottom, or the generator's own shift of the origin to min z
GenSetOrigin ==
    /\ GenAtOp("set_origin")
    /\ gi' = gi + 1
    /\ UNCHANGED <<bindVars, seg, toolVars, runVars, animVars, gen, gen_objs>>

GenExport ==
    /\ GenAtOp("export_glb")
    /\ output_written' = TRUE
    /\ gi' = gi + 1
    /\ UNCHANGED <<script, pc, input_file, scene_objects, arm_obj, mesh_obj,
                   mesh_parent, mesh_modifiers, exit_status>>
    /\ UNCHANGED <<bindVars, seg, toolVars, animVars, gen, gen_objs>>

GenReturn ==
    /\ gen # 0 /\ pc = "generate" /\ gi > Len(GenOps)
    /\ pc' = "done"
    /\ UNCHANGED <<script, input_file, scene_objects, arm_obj, mesh_obj,
                   mesh_parent, mesh_modifiers, exit_status, output_written>>
    /\ UNCHANGED <<bindVars, seg, toolVars, animVars, genVars>>

GenNext ==
    \/ GenAddPart \/ GenCreatePart \/ GenSetVertexColors \/ GenJoin
    \/ GenSetOrigin \/ GenExport \/ GenReturn

\* ------------------------------------------------------------------------
\* Specification SpecPipe: one run of rig_and_export, of generate_animations
\* or of an asset generator
\* ------------------------------------------------------------------------
PipeInit ==
    \/ RigInit
    \/ AnimInit
    \/ GenInit

PipeNext == RigNext \/ AnimNext \/ GenNext

SpecPipe == PipeInit /\ [][PipeNext]_vars

\* ------------------------------------------------------------------------
\* The helpers of the asset generators.  Coordinates and normals of these
\* meshes are integers in units of 1/1024 m (values a float32 holds
\* exactly); a literal of the code such as 1.85 is compared as the fraction
\* 185/100, which orders it against every such value as the float
\* comparison does.  A colour is (r, g, b, a) in thousandths over a common
\* denominator den: the channel value is r / den thousandths.
\* ------------------------------------------------------------------------
RGBA(r, g, b, a) == [r |-> r, g |-> g, b |-> b, a |-> a, den |-> 1]

\* the value of a corner of a new colour attribute that no assignment has
\* reached
UNSET == [r |-> 0, g |-> 0, b |-> 0, a |-> 0, den |-> 0]

\* x > c and x < c for a coordinate x (1/1024 m) and a literal c (hundredths)
Gt(x, c) == x * 100 > c * 1024

Lt(x, c) == x * 100 < c * 1024

\* a mesh object: obj.data.vertices (co and normal), mesh.loops (the vertex
\* index of each corner), mesh.polygons (face normal z and loop_indices) and
\* the data of mesh.color_attributes[0], empty while there is no attribute
Mesh(vertices, normals, loops, polygons, colors) ==
    [name |-> "Mesh", location |-> <<0, 0, 0>>, scale |-> <<1024, 1024, 1024>>,
     vertices |-> vertices, normals |-> normals, loops |-> loops,
     polygons |-> polygons, colors |-> colors]

\* "if not mesh.color_attributes: mesh.color_attributes.new(...)"
color_layer_of(obj) ==
    IF obj.colors = <<>> THEN [li \in DOMAIN obj.loops |-> UNSET] ELSE obj.colors

\* mutant: the loop over the corners leaves a polygon after its first corner
next_corner_first_only(polygons, poly, k) == [poly |-> poly + 1, k |-> 1]

\* "for poly in mesh.polygons: for li in poly.loop_indices": the position
\* after corner k of polygon poly
next_corner(polygons, poly, k) ==
    IF k < Len(polygons[poly].loop_indices)
    THEN [poly |-> poly, k |-> k + 1]
    ELSE [poly |-> poly + 1, k |-> 1]

\* mutant: the position is looked up by the corner's index
corner_position_by_loop(vert_positions, loops, li) ==
    vert_positions[((li - 1) % Len(vert_positions)) + 1]

\* "vi = loop.vertex_index ... vert_positions[vi]"
corner_position(vert_positions, loops, li) == vert_positions[loops[li]]

\* math.sin(pos.z * 15) * 0.02 in thousandths (rounded), at the heights of
\* the model
SinGrain ==
    (154 :> 15) @@ (317 :> -20) @@ (1126 :> -14) @@ (1600 :> -20)
        @@ (1900 :> 9) @@ (2253 :> 20)

\* mutant: the wall predicate is tested before the roof predicate
cottage_color_walls_first(pos, offset_x) ==
    LET lx == pos[1] - offset_x
    IN  IF Gt(lx, 90) /\ Gt(pos[2], 100) /\ Gt(pos[3], 200)
        THEN RGBA(450, 420, 400, 1000)
        ELSE IF Gt(pos[3], 30) /\ Lt(pos[3], 190)
        THEN RGBA(550 + SinGrain[pos[3]], 380 + SinGrain[pos[3]], 200, 1000)
        ELSE IF Gt(pos[3], 185)
        THEN RGBA(320, 220, 120, 1000)
        ELSE RGBA(500, 350, 180, 1000)

\* cottage_color(pos) of generate_cottage(offset_x)
cottage_color(pos, offset_x) ==
    LET lx == pos[1] - offset_x
    IN  IF Gt(lx, 90) /\ Gt(pos[2], 100) /\ Gt(pos[3], 200)
        THEN RGBA(450, 420, 400, 1000)
        ELSE IF Gt(pos[3], 185)
        THEN RGBA(320, 220, 120, 1000)
        ELSE IF Lt(pos[3], 32)
        THEN RGBA(500, 480, 450, 1000)
        ELSE IF Lt(Abs(lx), 32) /\ Lt(Abs(pos[2]), 10) /\ Lt(pos[3], 135)
        THEN RGBA(300, 180, 80, 1000)
        ELSE IF Gt(lx, 135) /\ Gt(pos[3], 100) /\ Lt(pos[3], 145)
        THEN RGBA(280, 160, 60, 1000)
        ELSE IF Gt(pos[3], 30) /\ Lt(pos[3], 190)
        THEN RGBA(550 + SinGrain[pos[3]], 380 + SinGrain[pos[3]], 200, 1000)
        ELSE RGBA(500, 350, 180, 1000)

\* the colours of generate_rocks
ROCK_COLOR == RGBA(480, 440, 380, 1000)

ROCK_DARK == RGBA(350, 320, 280, 1000)

MOSS_COLOR == RGBA(300, 400, 220, 1000)

\* mutant: blend = normal_z - moss_threshold, not divided by 1 - threshold
moss_blend_undivided(normal_z, moss_threshold) ==
    [num |-> normal_z * 10 - moss_threshold * 1024, den |-> 10 * 1024]

\* blend = (normal_z - moss_threshold) / (1.0 - moss_threshold) as a
\* fraction; moss_threshold is in tenths
moss_blend(normal_z, moss_threshold) ==
    [num |-> normal_z * 10 - moss_threshold * 1024,
     den |-> (10 - moss_threshold) * 1024]

\* the colour set_vertex_colors_with_moss writes to the corners of a polygon
moss_color_of(normal_z, base_color, moss_color, moss_threshold) ==
    IF normal_z * 10 > moss_threshold * 1024
    THEN LET blend == moss_blend(normal_z, moss_threshold)
         IN  [r |-> base_color.r * (blend.den - blend.num) + moss_color.r * blend.num,
              g |-> base_color.g * (blend.den - blend.num) + moss_color.g * blend.num,
              b |-> base_color.b * (blend.den - blend.num) + moss_color.b * blend.num,
              a |-> 1000 * blend.den,
              den |-> blend.den]
    ELSE base_color

\* ------------------------------------------------------------------------
\* Specification SpecColor: set_vertex_colors with cottage_color and
\* set_vertex_colors_with_moss, corner by corner, on a mesh of two triangles
\* that share an edge (and a vertex no polygon uses)
\* ------------------------------------------------------------------------
TwoTriangles ==
    [loops |-> <<1, 2, 3, 1, 3, 4>>,
     polygons |-> <<<<1, 2, 3>>, <<4, 5, 6>>>>]

\* local x (before offset_x is added), y and z of the vertices: each side
\* of every literal of cottage_color
CottageX == {0, 1000, 1434}

CottageY == {0, 1300}

CottageZ == {154, 317, 1126, 1600, 1900, 2253}

OffsetsX == {0, 6 * 1024}

\* face normal z: down, level, below and above the thresholds, up
NormalsZ == {-1024, 0, 600, 820, 1024}

\* a colour attribute an earlier colouring has filled
StaleColors == [li \in 1..6 |-> RGBA(1000, 1000, 1000, 1000)]

ColorInit ==
    /\ \E offset_x \in OffsetsX, x1 \in CottageX, y1 \in CottageY,
          z1 \in CottageZ, z2 \in CottageZ, nz1 \in NormalsZ, nz2 \in {600, 1024},
          stale \in BOOLEAN :
          LET vs == <<(<<x1 + offset_x, y1, z1>>), (<<offset_x, 0, z2>>),
                       (<<1000 + offset_x, 1300, 2253>>),
                       (<<x1 + offset_x, y1, z1>>), (<<offset_x, 0, 154>>)>>
          IN  /\ \/ mesh_objects =
                       <<Mesh(vs, [v \in DOMAIN vs |-> <<0, 0, 1024>>],
                              TwoTriangles.loops,
                              <<[normal_z |-> nz1,
                                 loop_indices |-> TwoTriangles.polygons[1]],
                                [normal_z |-> nz2,
                                 loop_indices |-> TwoTriangles.polygons[2]]>>,
                              IF stale THEN StaleColors ELSE <<>>)>>
                 \/ /\ mesh_objects = <<Mesh(<<>>, <<>>, <<>>, <<>>, <<>>)>>
                    /\ x1 = 0 /\ y1 = 0 /\ z1 = 154 /\ z2 = 154 /\ ~stale
              /\ \/ /\ nz1 = 0 /\ nz2 = 1024
                    /\ tool = [fn |-> "set_vertex_colors", pc |-> "start",
                               color_func |-> "cottage_color",
                               offset_x |-> offset_x, calls |-> 1]
                 \/ /\ x1 = 0 /\ y1 = 0 /\ z1 = z2 /\ offset_x = 0
                    /\ \E base \in {ROCK_COLOR, ROCK_DARK}, t \in {5, 6, 7} :
                          tool = [fn |-> "set_vertex_colors_with_moss",
                                  pc |-> "start", base_color |-> base,
                                  moss_color |-> MOSS_COLOR, moss_threshold |-> t,
                                  calls |-> 1]
    /\ active_object = 1
    /\ parts = <<>>
    /\ streams = <<>>
    /\ random_draws = 0
    /\ arm_bones = <<>>
    /\ verts = <<>>
    /\ vertex_groups = <<>>
    /\ v_groups = <<>>
    /\ bpc = "uncalled"
    /\ vi = 0
    /\ seg = SegIdle
    /\ RunIdle /\ AnimIdle /\ GenIdle

ColorUnchanged ==
    UNCHANGED <<bindVars, seg, runVars, animVars, genVars, active_object, parts,
                streams, random_draws>>

\* set_vertex_colors, lines 38-42: the colour attribute and vert_positions
ColorStart ==
    /\ tool.fn = "set_vertex_colors" /\ tool.pc = "start"
    /\ mesh_objects' = [mesh_objects EXCEPT ![1].colors = color_layer_of(mesh_objects[1])]
    /\ tool' = [fn |-> tool.fn, pc |-> "loop", color_func |-> tool.color_func,
                offset_x |-> tool.offset_x, calls |-> tool.calls,
                vert_positions |-> mesh_objects[1].vertices, poly |-> 1, k |-> 1]
    /\ ColorUnchanged

\* set_vertex_colors, lines 44-47: one corner
ColorCorner ==
    /\ tool.fn = "set_vertex_colors" /\ tool.pc = "loop"
    /\ tool.poly <= Len(mesh_objects[1].polygons)
    /\ LET li == mesh_objects[1].polygons[tool.poly].loop_indices[tool.k]
           pos == corner_position(tool.vert_positions, mesh_objects[1].loops, li)
           nxt == next_corner(mesh_objects[1].polygons, tool.poly, tool.k)
       IN  /\ mesh_objects' = [mesh_objects EXCEPT
                                 ![1].colors[li] = cottage_color(pos, tool.offset_x)]
           /\ tool' = [tool EXCEPT !.poly = nxt.poly, !.k = nxt.k]
    /\ ColorUnchanged

ColorReturn ==
    /\ tool.fn = "set_vertex_colors" /\ tool.pc = "loop"
    /\ tool.poly > Len(mesh_objects[1].polygons)
    /\ tool' = [fn |-> tool.fn, pc |-> "done", color_func |-> tool.color_func,
                offset_x |-> tool.offset_x, calls |-> tool.calls]
    /\ UNCHANGED mesh_objects
    /\ ColorUnchanged

\* the generator colours the mesh a second time
ColorAgain ==
    /\ tool.fn = "set_vertex_colors" /\ tool.pc = "done" /\ tool.calls = 1
    /\ tool' = [tool EXCEPT !.pc = "start", !.calls = 2]
    /\ UNCHANGED mesh_objects
    /\ ColorUnchanged

\* set_vertex_colors_with_moss, lines 47-52
MossStart ==
    /\ tool.fn = "set_vertex_colors_with_moss" /\ tool.pc = "start"
    /\ mesh_objects' = [mesh_objects EXCEPT ![1].colors = color_layer_of(mesh_objects[1])]
    /\ tool' = [fn |-> tool.fn, pc |-> "loop", base_color |-> tool.base_color,
                moss_color |-> tool.moss_color,
                moss_threshold |-> tool.moss_threshold, calls |-> tool.calls,
                poly |-> 1, k |-> 1]
    /\ ColorUnchanged

\* set_vertex_colors_with_moss, lines 54-65: one corner
MossCorner ==
    /\ tool.fn = "set_vertex_colors_with_moss" /\ tool.pc = "loop"
    /\ tool.poly <= Len(mesh_objects[1].polygons)
    /\ LET poly == mesh_objects[1].polygons[tool.poly]
           loop_idx == poly.loop_indices[tool.k]
           nxt == next_corner(mesh_objects[1].polygons, tool.poly, tool.k)
       IN  /\ mesh_objects' = [mesh_objects EXCEPT
                                 ![1].colors[loop_idx] =
                                     moss_color_of(poly.normal_z, tool.base_color,
                                                   tool.moss_color,
                                                   tool.moss_threshold)]
           /\ tool' = [tool EXCEPT !.poly = nxt.poly, !.k = nxt.k]
    /\ ColorUnchanged

MossReturn ==
    /\ tool.fn = "set_vertex_colors_with_moss" /\ tool.pc = "loop"
    /\ tool.poly > Len(mesh_objects[1].polygons)
    /\ tool' = [fn |-> tool.fn, pc |-> "done", base_color |-> tool.base_color,
                moss_color |-> tool.moss_color,
                moss_threshold |-> tool.moss_threshold, calls |-> tool.calls]
    /\ UNCHANGED mesh_objects
    /\ ColorUnchanged

ColorNext ==
    \/ ColorStart \/ ColorCorner \/ ColorReturn \/ ColorAgain
    \/ MossStart \/ MossCorner \/ MossReturn

SpecColor == ColorInit /\ [][ColorNext]_vars

\* ------------------------------------------------------------------------
\* set_origin_bottom(obj, z_offset)
\* ------------------------------------------------------------------------
Min(S) == CHOOSE x \in S : \A y \in S : x <= y

Max(S) == CHOOSE x \in S : \A y \in S : x >= y

Coords(vertices, axis) == {vertices[i][axis] : i \in DOMAIN vertices}

\* cx, cy and min_z of lines 129-135; the coordinates of the model are even,
\* so (min + max) * 0.5 is a value of the lattice
origin_shift(vertices, z_offset) ==
    <<(Min(Coords(vertices, 1)) + Max(Coords(vertices, 1))) \div 2,
      (Min(Coords(vertices, 2)) + Max(Coords(vertices, 2))) \div 2,
      Min(Coords(vertices, 3)) + z_offset>>

\* ------------------------------------------------------------------------
\* Specification SpecOrigin: set_origin_bottom on a mesh of three vertices
\* ------------------------------------------------------------------------
OriginX == {-512, 0, 6656}

OriginZ == {-308, 0, 308, 2048}

\* z_offset: the default 0.0, a quarter of a metre up and down
OriginOffsets == {0, 256, -256}

\* a mesh without vertices and polygons, as a join of nothing leaves it
EmptyMesh == Mesh(<<>>, <<>>, <<>>, <<>>, <<>>)

OriginInit ==
    /\ \E x1 \in OriginX, z1 \in OriginZ, x2 \in OriginX, z2 \in OriginZ,
          z_offset \in OriginOffsets, loc \in {<<0, 0, 0>>, <<6144, 0, 154>>} :
          /\ \/ mesh_objects =
                   <<[Mesh(<<(<<x1, 0, z1>>), (<<x2, 1536, z2>>), (<<1024, -512, 512>>)>>,
                           <<(<<0, 0, 1024>>), (<<0, 0, 1024>>), (<<0, 0, 1024>>)>>,
                           <<1, 2, 3>>,
                           <<[normal_z |-> 1024, loop_indices |-> <<1, 2, 3>>]>>,
                           <<>>)
                      EXCEPT !.location = loc]>>
             \/ mesh_objects = <<[EmptyMesh EXCEPT !.location = loc]>>
          /\ tool = [fn |-> "set_origin_bottom", pc |-> "start", z_offset |-> z_offset]
    /\ active_object = 1
    /\ parts = <<>>
    /\ streams = <<>>
    /\ random_draws = 0
    /\ arm_bones = <<>>
    /\ verts = <<>>
    /\ vertex_groups = <<>>
    /\ v_groups = <<>>
    /\ bpc = "uncalled"
    /\ vi = 0
    /\ seg = SegIdle
    /\ RunIdle /\ AnimIdle /\ GenIdle

\* lines 129-135: xs, ys, zs, cx, cy, min_z
OriginMeasure ==
    /\ tool.fn = "set_origin_bottom" /\ tool.pc = "start"
    /\ mesh_objects[1].vertices # <<>>
    /\ tool' = [fn |-> tool.fn, pc |-> "loop", z_offset |-> tool.z_offset,
                shift |-> origin_shift(mesh_objects[1].vertices, tool.z_offset),
                i |-> 1]
    /\ UNCHANGED mesh_objects
    /\ ColorUnchanged

\* lines 136-139: one vertex
OriginMoveVertex ==
    /\ tool.fn = "set_origin_bottom" /\ tool.pc = "loop"
    /\ tool.i <= Len(mesh_objects[1].vertices)
    /\ mesh_objects' = [mesh_objects EXCEPT
                          ![1].vertices[tool.i] = VSub(@, tool.shift)]
    /\ tool' = [tool EXCEPT !.i = @ + 1]
    /\ ColorUnchanged

\* line 140: obj.location = (0, 0, 0)
OriginReturn ==
    /\ tool.fn = "set_origin_bottom" /\ tool.pc = "loop"
    /\ tool.i > Len(mesh_objects[1].vertices)
    /\ mesh_objects' = [mesh_objects EXCEPT ![1].location = <<0, 0, 0>>]
    /\ tool' = [fn |-> tool.fn, pc |-> "done", z_offset |-> tool.z_offset]
    /\ ColorUnchanged

\* line 133 on a mesh without vertices: min(xs) of an empty list raises
\* ValueError, and nothing catches it
OriginRaises ==
    /\ tool.fn = "set_origin_bottom" /\ tool.pc = "start"
    /\ mesh_objects[1].vertices = <<>>
    /\ tool' = [fn |-> tool.fn, pc |-> "raised", z_offset |-> tool.z_offset,
                error |-> "ValueError"]
    /\ UNCHANGED mesh_objects
    /\ ColorUnchanged

OriginNext == OriginMeasure \/ OriginMoveVertex \/ OriginReturn \/ OriginRaises

SpecOrigin == OriginInit /\ [][OriginNext]_vars

\* ------------------------------------------------------------------------
\* add_part(parts, name, prim, loc, scl, rot)
\* ------------------------------------------------------------------------
\* the kinds the chain of "if prim == ..." of a script's add_part knows
supported_kinds(file) ==
    IF file \in {"generate_buildings", "generate_dungeon", "generate_props"}
    THEN {"cube", "cylinder", "uv_sphere", "cone", "torus"}
    ELSE {"cube", "cylinder", "uv_sphere", "cone"}

\* bpy.ops.mesh.primitive_*_add(location=loc): a new object of unit size,
\* which becomes the active object
primitive_add(objects, prim, loc) ==
    Append(objects, [Mesh(<<(<<1024, 1024, 1024>>)>>, <<(<<0, 0, 1024>>)>>, <<>>,
                          <<>>, <<>>)
                     EXCEPT !.name = prim, !.location = loc])

\* "obj.scale = scl" and transform_apply(scale=True, rotation=True): the
\* operator's location argument is True by default, so the scale and the
\* location go into the vertices and the object is left at the origin
apply_scale(obj, scl) ==
    [obj EXCEPT !.vertices = [i \in DOMAIN obj.vertices |->
                                 <<(obj.vertices[i][1] * scl[1]) \div 1024
                                       + obj.location[1],
                                   (obj.vertices[i][2] * scl[2]) \div 1024
                                       + obj.location[2],
                                   (obj.vertices[i][3] * scl[3]) \div 1024
                                       + obj.location[3]>>],
                !.location = <<0, 0, 0>>]

\* the whole of add_part on the scene: the objects, the active object and
\* the list parts afterwards; raised is set when "obj.name = name" meets
\* obj = None (AttributeError)
add_part(file, objects, active, pts, name, prim, loc, scl) ==
    LET added == prim \in supported_kinds(file)
        objects1 == IF added THEN primitive_add(objects, prim, loc) ELSE objects
        obj == IF added THEN Len(objects1) ELSE active
    IN  IF obj = 0
        THEN [objects |-> objects, active |-> active, parts |-> pts, raised |-> TRUE]
        ELSE [objects |-> [objects1 EXCEPT
                             ![obj] = apply_scale([objects1[obj] EXCEPT !.name = name],
                                                  scl)],
              active |-> obj,
              parts |-> Append(pts, obj),
              raised |-> FALSE]

\* ------------------------------------------------------------------------
\* Specification SpecParts: a generator function calls add_part up to
\* MaxParts times, with supported and unsupported kinds
\* ------------------------------------------------------------------------
PartNames == <<"CO_Foundation", "CO_WallFrontL", "CO_Door", "CO_Ridge", "CO_Floor">>

PartKinds == {"cube", "torus", "pyramid"}

PartScales == {<<512, 512, 512>>, <<2048, 1024, 512>>}

\* the arguments of the next call of add_part
PartCalls(n) ==
    {[fn |-> "add_part", pc |-> "call", file |-> file, n |-> n,
      name |-> PartNames[n], prim |-> prim, loc |-> <<0, 0, 154 * n>>, scl |-> scl] :
        file \in {"generate_buildings", "generate_items"}, prim \in PartKinds,
        scl \in PartScales}

PartsInit ==
    /\ mesh_objects = <<>>
    /\ active_object = 0
    /\ parts = <<>>
    /\ tool \in PartCalls(1)
    /\ streams = <<>>
    /\ random_draws = 0
    /\ arm_bones = <<>>
    /\ verts = <<>>
    /\ vertex_groups = <<>>
    /\ v_groups = <<>>
    /\ bpc = "uncalled"
    /\ vi = 0
    /\ seg = SegIdle
    /\ RunIdle /\ AnimIdle /\ GenIdle

PartsUnchanged ==
    UNCHANGED <<bindVars, seg, runVars, animVars, genVars, streams, random_draws>>

\* one call of add_part; then the generator goes on to its next call, or to
\* join_parts
AddPart ==
    /\ tool.fn = "add_part" /\ tool.pc = "call"
    /\ LET r == add_part(tool.file, mesh_objects, active_object, parts,
                         tool.name, tool.prim, tool.loc, tool.scl)
       IN  /\ ~r.raised
           /\ mesh_objects' = r.objects
           /\ active_object' = r.active
           /\ parts' = r.parts
    /\ \/ /\ tool.n < MaxParts
          /\ tool' \in {c \in PartCalls(tool.n + 1) : c.file = tool.file}
       \/ tool' = [fn |-> "add_part", pc |-> "returned", file |-> tool.file]
    /\ PartsUnchanged

\* the call raises: the script ends with a traceback
AddPartRaises ==
    /\ tool.fn = "add_part" /\ tool.pc = "call"
    /\ add_part(tool.file, mesh_objects, active_object, parts,
                tool.name, tool.prim, tool.loc, tool.scl).raised
    /\ tool' = [fn |-> "add_part", pc |-> "raised", file |-> tool.file]
    /\ UNCHANGED <<mesh_objects, active_object, parts>>
    /\ PartsUnchanged

PartsNext == AddPart \/ AddPartRaises

SpecParts == PartsInit /\ [][PartsNext]_vars

\* ------------------------------------------------------------------------
\* displace_vertices(obj, amount, seed_offset) of generate_rocks and of
\* generate_trees.  Positions, amounts and displacements are in
\* thousandths of a metre; a normal is a unit vector in thousandths.
\* ------------------------------------------------------------------------
\* random() yields one of the levels 0/U, 1/U, ..., (U-1)/U of [0, 1)
U == 4

\* "random.seed(SEED)" at the top of the script seeds the module-level
\* generator
SEED(variant) == IF variant = "generate_rocks" THEN 99 ELSE 42

\* mutant: the function draws from a generator that stands where the
\* module-level generator stands
Random_shared(seed_offset) ==
    [seed |-> SEED(tool.variant), pos |-> random_draws]

\* "rng = random.Random(seed_offset)": a generator of its own, at the start
\* of the stream of that seed
Random(seed_offset) == [seed |-> seed_offset, pos |-> 0]

\* the k-th value random() yields after rng was made
draw(rng, k) == streams[rng.seed][rng.pos + k]

\* rng.uniform(a, b) is a + (b - a) * random()
uniform(a, b, u) == a + ((b - a) * u) \div U

\* generate_rocks: "displacement = rng.uniform(-amount, amount)" and
\* "v.co += v.normal * displacement"; one draw
displace_rock(co, normal, rng, amount) ==
    LET displacement == uniform(-amount, amount, draw(rng, 1))
    IN  [co |-> <<co[1] + (normal[1] * displacement) \div 1000,
                  co[2] + (normal[2] * displacement) \div 1000,
                  co[3] + (normal[3] * displacement) \div 1000>>,
         rng |-> [rng EXCEPT !.pos = @ + 1]]

\* mutant: z is drawn first, x last
displace_tree_zyx(co, normal, rng, amount) ==
    [co |-> <<co[1] + uniform(-amount, amount, draw(rng, 3)),
              co[2] + uniform(-amount, amount, draw(rng, 2)),
              co[3] + uniform(-amount, amount, draw(rng, 1))>>,
     rng |-> [rng EXCEPT !.pos = @ + 3]]

\* generate_trees: "v.co.x += rng.uniform(-amount, amount)", then v.co.y,
\* then v.co.z; three draws in that order
displace_tree(co, normal, rng, amount) ==
    [co |-> <<co[1] + uniform(-amount, amount, draw(rng, 1)),
              co[2] + uniform(-amount, amount, draw(rng, 2)),
              co[3] + uniform(-amount, amount, draw(rng, 3))>>,
     rng |-> [rng EXCEPT !.pos = @ + 3]]

\* ------------------------------------------------------------------------
\* Specification SpecDisplace: three equal meshes; displace_vertices is
\* called on the first, then (possibly) with another seed on the third, then
\* with the seed of the first call on the second; between the calls the
\* script draws from the module-level generator
\* ------------------------------------------------------------------------
MaxDraws == 2

\* a facet of the ico sphere: two vertices with their normals, one polygon
Facet ==
    Mesh(<<(<<0, 0, 1000>>), (<<600, 0, 800>>)>>,
         <<(<<0, 0, 1000>>), (<<600, 0, 800>>)>>,
         <<1, 2>>, <<(<<1, 2>>)>>, <<>>)

\* amount and seed_offset at the calls of the two scripts
DisplaceSites(variant) ==
    IF variant = "generate_rocks"
    THEN {[amount |-> 120, seed_offset |-> 500], [amount |-> 60, seed_offset |-> 600]}
    ELSE {[amount |-> 150, seed_offset |-> 0], [amount |-> 150, seed_offset |-> 7]}

StreamLen == MaxDraws + 3 * Len(Facet.vertices)

\* what a generator can yield: the model fixes one stream for every seed
StreamChoices ==
    {[k \in 1..StreamLen |-> (a * k + b) % U] : a \in {1, 3}, b \in {0, 1}}

DisplaceInit ==
    /\ mesh_objects = <<Facet, Facet, Facet>>
    /\ active_object = 0
    /\ parts = <<>>
    /\ \E variant \in {"generate_rocks", "generate_trees"} :
         /\ \E site \in DisplaceSites(variant) :
              tool = [fn |-> "displace_vertices", pc |-> "idle", variant |-> variant,
                      site |-> site, done |-> {}]
         /\ streams \in [{s.seed_offset : s \in DisplaceSites(variant)}
                            \cup {SEED(variant)} -> StreamChoices]
    /\ random_draws = 0
    /\ arm_bones = <<>>
    /\ verts = <<>>
    /\ vertex_groups = <<>>
    /\ v_groups = <<>>
    /\ bpc = "uncalled"
    /\ vi = 0
    /\ seg = SegIdle
    /\ RunIdle /\ AnimIdle /\ GenIdle

DisplaceUnchanged ==
    UNCHANGED <<bindVars, seg, runVars, animVars, genVars, active_object, parts, streams>>

\* "random.uniform(...)" in the script, between two calls
DrawModule ==
    /\ tool.fn = "displace_vertices" /\ tool.pc = "idle"
    /\ random_draws < MaxDraws
    /\ random_draws' = random_draws + 1
    /\ UNCHANGED <<mesh_objects, tool>>
    /\ DisplaceUnchanged

\* the calls that can come next: 1, then 3 (the other site) or 2
NextCalls ==
    IF 1 \notin tool.done THEN {1}
    ELSE IF 2 \in tool.done THEN {}
    ELSE {2} \cup ({3} \ tool.done)

DisplaceStart ==
    /\ tool.fn = "displace_vertices" /\ tool.pc = "idle"
    /\ \E call \in NextCalls :
         \E site \in DisplaceSites(tool.variant) :
           /\ (call = 3) = (site # tool.site)
           /\ tool' = [fn |-> "displace_vertices", pc |-> "loop",
                       variant |-> tool.variant, site |-> tool.site, done |-> tool.done,
                       call |-> call, amount |-> site.amount,
                       rng |-> Random(site.seed_offset), i |-> 1]
    /\ UNCHANGED <<mesh_objects, random_draws>>
    /\ DisplaceUnchanged

\* one turn of "for v in mesh.vertices"
DisplaceVertex ==
    /\ tool.fn = "displace_vertices" /\ tool.pc = "loop"
    /\ tool.i <= Len(mesh_objects[tool.call].vertices)
    /\ LET obj == mesh_objects[tool.call]
           r == IF tool.variant = "generate_rocks"
                THEN displace_rock(obj.vertices[tool.i], obj.normals[tool.i],
                                   tool.rng, tool.amount)
                ELSE displace_tree(obj.vertices[tool.i], obj.normals[tool.i],
                                   tool.rng, tool.amount)
       IN  /\ mesh_objects' = [mesh_objects EXCEPT
                                  ![tool.call].vertices[tool.i] = r.co]
           /\ tool' = [tool EXCEPT !.rng = r.rng, !.i = @ + 1]
    /\ UNCHANGED random_draws
    /\ DisplaceUnchanged

DisplaceReturn ==
    /\ tool.fn = "displace_vertices" /\ tool.pc = "loop"
    /\ tool.i > Len(mesh_objects[tool.call].vertices)
    /\ tool' = [fn |-> "displace_vertices", pc |-> "idle", variant |-> tool.variant,
                site |-> tool.site, done |-> tool.done \cup {tool.call}]
    /\ UNCHANGED <<mesh_objects, random_draws>>
    /\ DisplaceUnchanged

DisplaceNext == DrawModule \/ DisplaceStart \/ DisplaceVertex \/ DisplaceReturn

SpecDisplace == DisplaceInit /\ [][DisplaceNext]_vars

\* ------------------------------------------------------------------------
\* Claims on the animation clips
\* ------------------------------------------------------------------------
Animating == script = "generate_animations" /\ clip >= 1

\* the keys of the action on the i-th NLA track
TrackKeys(i) == actions[nla_tracks[i].strips[1].action]

\* clip i is authored and pushed to its track
Pushed(i) == Animating /\ clip > i

FullSkeleton == DOMAIN pose = AllBoneNames

CurveAt(i, bone, data_path, frame) ==
    fcurve_evaluate(TrackKeys(i), bone, data_path, frame)

HasKey(i, bone, data_path, frame) ==
    \E k \in TrackKeys(i) :
        k.bone = bone /\ k.data_path = data_path /\ k.frame = frame

\* the last frames of Idle, Walk and Run
LoopEnd == <<60, 30, 20>>

\* C4: in each looping clip (Idle 1 and 60, Walk 1 and 30, Run 1 and 20) every
\* bone the clip keys has the same rotation and the same location at the
\* first frame and at the last frame, and every bone keyed at the first frame
\* is keyed at the last frame; Walk UpperLeg_L is -25 degrees about X at
\* frames 1 and 30.
C4_LoopClosure ==
    /\ \A i \in 1..3 : Pushed(i) =>
          \A k \in TrackKeys(i) :
              /\ CurveAt(i, k.bone, k.data_path, 1)
                    = CurveAt(i, k.bone, k.data_path, LoopEnd[i])
              /\ k.frame = 1 => HasKey(i, k.bone, k.data_path, LoopEnd[i])
    /\ (Pushed(2) /\ "UpperLeg_L" \in DOMAIN pose) =>
          /\ CurveAt(2, "UpperLeg_L", "rotation_euler", 1) = <<-250 * 1745, 0, 0>>
          /\ CurveAt(2, "UpperLeg_L", "rotation_euler", 30) = <<-250 * 1745, 0, 0>>

C4_Witness ==
    /\ Pushed(3) /\ FullSkeleton
    /\ HasKey(1, "Head", "rotation_euler", 60)
    /\ HasKey(2, "Hips", "location", 30)
    /\ CurveAt(3, "UpperLeg_L", "rotation_euler", 20) = <<-400 * 1745, 0, 0>>

\* source frame and mirrored frame of the contact and the passing poses
MirrorFrames ==
    <<{}, {<<1, 15>>, <<8, 23>>}, {<<1, 10>>, <<5, 15>>}>>

SidePairs ==
    {<<"Shoulder_L", "Shoulder_R">>, <<"UpperArm_L", "UpperArm_R">>,
     <<"LowerArm_L", "LowerArm_R">>, <<"Hand_L", "Hand_R">>,
     <<"UpperLeg_L", "UpperLeg_R">>, <<"LowerLeg_L", "LowerLeg_R">>,
     <<"Foot_L", "Foot_R">>}

\* C5: in Walk (frames 1 -> 15, 8 -> 23) and Run (1 -> 10, 5 -> 15) the
\* right-side keypose mirrors the left-side one: for a paired bone X_L at the
\* mirrored frame has the value of X_R at the source frame and X_R that of
\* X_L; for Spine and Chest the X rotation is equal and the Y and Z rotations
\* are negated; the Hips offset is equal.
C5_MirroredKeyposes ==
    \A i \in 2..3 : Pushed(i) =>
        \A fr \in MirrorFrames[i] :
            /\ \A pr \in SidePairs, dp \in {"rotation_euler", "location"} :
                  (pr[1] \in DOMAIN pose /\ pr[2] \in DOMAIN pose) =>
                      /\ CurveAt(i, pr[1], dp, fr[2]) = CurveAt(i, pr[2], dp, fr[1])
                      /\ CurveAt(i, pr[2], dp, fr[2]) = CurveAt(i, pr[1], dp, fr[1])
            /\ \A b \in {"Spine", "Chest"} \cap DOMAIN pose :
                  LET src == CurveAt(i, b, "rotation_euler", fr[1])
                      mir == CurveAt(i, b, "rotation_euler", fr[2])
                  IN  /\ HasKey(i, b, "rotation_euler", fr[1])
                      /\ HasKey(i, b, "rotation_euler", fr[2])
                      /\ mir[1] = src[1] /\ mir[2] = -src[2] /\ mir[3] = -src[3]
            /\ "Hips" \in DOMAIN pose =>
                  /\ HasKey(i, "Hips", "location", fr[1])
                  /\ CurveAt(i, "Hips", "location", fr[2])
                        = CurveAt(i, "Hips", "location", fr[1])

C5_Witness ==
    /\ Pushed(3) /\ FullSkeleton
    /\ CurveAt(2, "Spine", "rotation_euler", 1)[2] > 0
    /\ CurveAt(2, "Spine", "rotation_euler", 15)[2] < 0
    /\ CurveAt(3, "UpperLeg_L", "rotation_euler", 1)
          # CurveAt(3, "UpperLeg_R", "rotation_euler", 1)

\* C6: in the Jump clip every bone the clip animates at any frame has zero
\* rotation, and Hips zero offset, at frame 1 and at frame 30.
C6_JumpNeutralAtEnds ==
    Pushed(4) =>
        \A k \in TrackKeys(4) :
            /\ CurveAt(4, k.bone, k.data_path, 1) = <<0, 0, 0>>
            /\ CurveAt(4, k.bone, k.data_path, 30) = <<0, 0, 0>>

ExpectedFrames ==
    <<{1, 30, 60}, {1, 8, 15, 23, 30}, {1, 5, 10, 15, 20}, {1, 6, 10, 16, 22, 30}>>

ClipLength == <<60, 30, 20, 30>>

\* the frames at which the action of clip i has keys so far
KeyedFrames(i) ==
    IF CLIPS[i].name \in DOMAIN actions
    THEN {k.frame : k \in actions[CLIPS[i].name]}
    ELSE {}

\* C7: the keyframes of each clip fall on exactly these frames: Idle {1, 30,
\* 60}, Walk {1, 8, 15, 23, 30}, Run {1, 5, 10, 15, 20}, Jump {1, 6, 10, 16,
\* 22, 30}; no clip has a key before frame 1 or after its length (60, 30, 20,
\* 30).  While a clip is authored, and on a skeleton that lacks bones, its
\* keys are on some of these frames; once it is pushed on the full skeleton
\* they are on all of them.
C7_KeyframeFrames ==
    Animating =>
        \A i \in 1..4 :
            /\ KeyedFrames(i) \subseteq ExpectedFrames[i]
            /\ \A f \in KeyedFrames(i) : 1 <= f /\ f <= ClipLength[i]
            /\ (Pushed(i) /\ FullSkeleton) => KeyedFrames(i) = ExpectedFrames[i]

C7_Witness ==
    /\ Pushed(4) /\ FullSkeleton /\ pc = "done"
    /\ \A i \in 1..4 : KeyedFrames(i) = ExpectedFrames[i]

\* the key a call writes on the full skeleton
KeyOfCall(c) ==
    IF c.fn = "set_bone_rotation"
    THEN [bone |-> c.bone, data_path |-> "rotation_euler", frame |-> c.frame,
          value |-> <<c.v[1] * 1745, c.v[2] * 1745, c.v[3] * 1745>>]
    ELSE [bone |-> c.bone, data_path |-> "location", frame |-> c.frame,
          value |-> c.v]

\* the keys of the first n calls of clip i on the full skeleton: of several
\* calls for the same bone, property and frame the last one stays
FullSkeletonKeys(i, n) ==
    LET cs == CLIPS[i].calls
    IN  {KeyOfCall(cs[j]) : j \in
            {j \in 1..n : ~\E l \in (j + 1)..n :
                /\ cs[l].bone = cs[j].bone /\ cs[l].fn = cs[j].fn
                /\ cs[l].frame = cs[j].frame}}

\* the number of calls of clip i made so far
CallsMade(i) ==
    IF clip > i THEN Len(CLIPS[i].calls)
    ELSE IF clip = i /\ pc = "keys" THEN ci - 1
    ELSE 0

\* the next step is a keyframe call for a bone the armature lacks
CallOnMissingBone ==
    /\ script = "generate_animations" /\ pc = "keys"
    /\ ci <= Len(CLIPS[clip].calls)
    /\ CLIPS[clip].calls[ci].bone \notin DOMAIN pose

C8_KeysAsOnFullSkeleton ==
    Animating =>
        /\ \A i \in 1..4 :
              CLIPS[i].name \in DOMAIN actions =>
                  actions[CLIPS[i].name] =
                      {k \in FullSkeletonKeys(i, CallsMade(i)) : k.bone \in DOMAIN pose}
        /\ \A i \in 1..4 : Pushed(i) =>
              /\ Len(nla_tracks) >= i
              /\ nla_tracks[i].name = CLIPS[i].name
              /\ nla_tracks[i].strips[1].action = CLIPS[i].name
              /\ CLIPS[i].name \in DOMAIN actions
        /\ pc = "done" => (Len(nla_tracks) = 4 /\ exit_status = "0")

C8_SkipChangesNothing ==
    CallOnMissingBone =>
        /\ UNCHANGED <<pose, actions, active_action, nla_tracks, exit_status, pc>>
        /\ ci' = ci + 1

\* C8: a set_bone_rotation or set_bone_location that names a bone the
\* armature lacks inserts no key, raises no error and changes no pose bone
\* and no action; whatever bones are present, the keys written for them are
\* those of the full skeleton, and every clip is created and pushed to its
\* NLA track.
C8_MissingBoneSkipped ==
    [][C8_SkipChangesNothing]_vars /\ []C8_KeysAsOnFullSkeleton

C8_Witness ==
    /\ pc = "done" /\ script = "generate_animations"
    /\ DOMAIN pose = AllBoneNames \ LimbBones
    /\ Len(nla_tracks) = 4
    /\ actions["Walk"] # {}
    /\ \A k \in actions["Walk"] : k.bone \notin LimbBones

\* the keys the calls of clip i can write
KeysOfClip(i) == {KeyOfCall(CLIPS[i].calls[j]) : j \in DOMAIN CLIPS[i].calls}

\* the clips that have an action: those pushed, and the one being authored
ClipsWithAction ==
    IF pc \in {"reset_pose", "keys"} THEN 1..clip ELSE 1..(clip - 1)

\* a step changes no action but the active one, and that one only while
\* the clip's keyframe calls run
C12_OnlyActiveActionChanges ==
    (Animating /\ pc # "done") =>
        \A n \in DOMAIN actions :
            (n # active_action \/ pc # "keys") =>
                (n \in DOMAIN actions' /\ actions'[n] = actions[n])

C12_ClipOwnsItsAction ==
    Animating =>
        /\ pc = "reset_pose" => actions[active_action] = {}
        /\ pc \in {"reset_pose", "keys"} => active_action = CLIPS[clip].name
        /\ pc \in {"create_action", "export", "done"} => active_action = NONE
        /\ DOMAIN actions = {CLIPS[i].name : i \in ClipsWithAction}
        /\ \A i \in ClipsWithAction : actions[CLIPS[i].name] \subseteq KeysOfClip(i)
        /\ nla_tracks =
              [i \in 1..(clip - 1) |->
                  [name |-> CLIPS[i].name,
                   strips |-> <<[name |-> CLIPS[i].name, start |-> 1,
                                 action |-> CLIPS[i].name]>>]]
        /\ pc \in {"export", "done"} => Len(nla_tracks) = 4

\* C12: each keyframe inserted while a clip is authored goes to that clip's
\* action only: create_action installs a new empty action before the clip's
\* first keyframe and push_to_nla detaches it after the last one, so the
\* actions Idle, Walk, Run and Jump hold only keys of their own clip and end
\* up as four NLA tracks in that order, each with one strip starting at
\* frame 1.
C12_ClipsShareNoKeyframe ==
    [][C12_OnlyActiveActionChanges]_vars /\ []C12_ClipOwnsItsAction

\* a file an earlier run has animated, authored again on the full skeleton
C12_Witness ==
    /\ script = "generate_animations" /\ pc = "done"
    /\ input_file.animated
    /\ FullSkeleton
    /\ Len(nla_tracks) = 4
    /\ \A i \in 1..4 : actions[CLIPS[i].name] = FullSkeletonKeys(i, Len(CLIPS[i].calls))

\* ------------------------------------------------------------------------
\* Claims on the runs of the scripts
\* ------------------------------------------------------------------------
Humanoid == script \in {"rig_and_export", "generate_animations"}

FileHas(type) ==
    \E i \in DOMAIN input_file.objects : input_file.objects[i].type = type

\* the input cannot be rigged or animated
FatalInput ==
    /\ Humanoid
    /\ \/ ~input_file.exists
       \/ ~FileHas("MESH")
       \/ script = "generate_animations" /\ ~FileHas("ARMATURE")

\* C9: if the input file is missing, or holds no mesh, or in
\* generate_animations no armature, the script exits with status 1 before
\* any vertex weight is assigned, any clip is created or any export is made:
\* the run is at its import steps or has exited with status 1, the actions
\* and tracks are at most those the file brought in, and the output file is
\* not written.
C9_FatalInputExits ==
    FatalInput =>
        /\ pc \in {"clear_scene", "import", "find_objects", "check_armature",
                   "check_mesh", "exit"}
        /\ pc = "exit" <=> exit_status = "1"
        /\ pc # "exit" => (exit_status = NONE /\ ENABLED PipeNext)
        /\ bpc = "uncalled"
        /\ \A v \in DOMAIN v_groups : v_groups[v] \in {{}, HumanoidGroups}
        /\ clip = 0
        /\ DOMAIN actions = {} \/ actions = PriorActions
        /\ nla_tracks = <<>> \/ nla_tracks = PriorTracks
        /\ ~output_written

C9_Witness ==
    /\ script = "generate_animations"
    /\ pc = "exit" /\ exit_status = "1"
    /\ input_file.exists /\ arm_obj # NONE /\ mesh_obj = NONE
    /\ ~output_written

\* a weight has been assigned: the binder has been called
WeightsAssigned == bpc # "uncalled"

KeyInserted == Animating /\ \E n \in DOMAIN actions : actions[n] # {}

\* the armature the script works on is complete
ArmatureComplete ==
    /\ arm_obj # NONE
    /\ script = "rig_and_export" =>
          /\ pc \notin {"create_armature", "edit_bones"}
          /\ [i \in DOMAIN arm_bones |-> arm_bones[i].name]
                = [i \in DOMAIN BONES |-> BONES[i].name]
          /\ DOMAIN pose = AllBoneNames

C10_HumanoidOrder ==
    Humanoid =>
        /\ WeightsAssigned => ArmatureComplete
        /\ KeyInserted => (bpc = "done" /\ Len(vertex_groups) = Len(bone_data_of(arm_bones)))
        /\ output_written =>
              /\ pc = "done" /\ bpc = "done"
              /\ script = "generate_animations" => (clip = 5 /\ Len(nla_tracks) = 4)

SomeCornerColoured ==
    \E i \in DOMAIN gen_objs : \E c \in gen_objs[i] : c.coloured

\* every part of the generator is made and the parts are one object
AllPartsMerged ==
    /\ Len(gen_objs) = 1
    /\ {c.part : c \in gen_objs[1]} = 1..PartsBefore(GenOps, Len(GenOps) + 1)

JoinFirstScripts ==
    {"generate_buildings", "generate_dungeon", "generate_enemies",
     "generate_items", "generate_npcs", "generate_props"}

Coloured == tool.fn \in {"set_vertex_colors", "set_vertex_colors_with_moss"}
                /\ tool.pc = "done"

\* the corners of the polygons of the mesh: <<polygon, loop index>>
Corners ==
    {<<p, mesh_objects[1].polygons[p].loop_indices[k]>> :
        p \in DOMAIN mesh_objects[1].polygons, k \in 1..3}

CornerColor(li) == mesh_objects[1].colors[li]

CornerPos(li) == mesh_objects[1].vertices[mesh_objects[1].loops[li]]

\* C13: after set_vertex_colors (positional classifier) or
\* set_vertex_colors_with_moss has run on a mesh, every corner of every
\* polygon holds the colour the classifier gives it; no corner keeps the
\* value of a new attribute or the colour of an earlier colouring.
C13_EveryCornerColoured ==
    Coloured =>
        \A c \in Corners :
            /\ CornerColor(c[2]) # UNSET
            /\ CornerColor(c[2]) # StaleColors[c[2]]
            /\ tool.fn = "set_vertex_colors" =>
                  CornerColor(c[2]) = cottage_color(CornerPos(c[2]), tool.offset_x)
            /\ tool.fn = "set_vertex_colors_with_moss" =>
                  CornerColor(c[2]) =
                      moss_color_of(mesh_objects[1].polygons[c[1]].normal_z,
                                    tool.base_color, tool.moss_color,
                                    tool.moss_threshold)

\* six corners coloured on a mesh that had no colour attribute
C13_Witness ==
    /\ Coloured /\ tool.calls = 1
    /\ Cardinality(Corners) = 6
    /\ \A c \in Corners : CornerColor(c[2]).a > 0
    /\ \E c, d \in Corners : CornerColor(c[2]) # CornerColor(d[2])

RoofColor == RGBA(320, 220, 120, 1000)

\* the walls colour: (0.55 + grain, 0.38 + grain, 0.20, 1.0)
IsWallColor(c) == c.b = 200 /\ c.den = 1 /\ c.r - c.g = 170

IsChimney(pos, offset_x) ==
    Gt(pos[1] - offset_x, 90) /\ Gt(pos[2], 100) /\ Gt(pos[3], 200)

PositionalDone == tool.fn = "set_vertex_colors" /\ tool.pc = "done"

\* C14 as stated: cottage_color returns the roof colour for every position
\* above the roof threshold (z > 1.85) and never the wall colour, even when
\* the position also satisfies the wall predicate (0.30 < z < 1.90).
C14_RoofAboveThreshold ==
    PositionalDone =>
        \A c \in Corners :
            Gt(CornerPos(c[2])[3], 185) => CornerColor(c[2]) = RoofColor

\* C14, amended: cottage_color returns the roof colour for every position
\* with z > 1.85 that does not satisfy the chimney predicate (lx > 0.90,
\* y > 1.0, z > 2.0), which comes first in the cascade and gives the chimney
\* colour; no position with z > 1.85 gets the wall colour, even when it
\* satisfies the wall predicate (0.30 < z < 1.90).
C14_RoofAboveThresholdButChimney ==
    PositionalDone =>
        \A c \in Corners :
            Gt(CornerPos(c[2])[3], 185) =>
                /\ ~IsWallColor(CornerColor(c[2]))
                /\ IsChimney(CornerPos(c[2]), tool.offset_x)
                      => CornerColor(c[2]) = RGBA(450, 420, 400, 1000)
                /\ ~IsChimney(CornerPos(c[2]), tool.offset_x)
                      => CornerColor(c[2]) = RoofColor

\* a corner between 1.85 and 1.90, where the roof and the wall predicate
\* both hold, has the roof colour, and a corner below has the wall colour
C14_Witness ==
    /\ PositionalDone
    /\ \E c \in Corners :
          /\ Gt(CornerPos(c[2])[3], 185) /\ Lt(CornerPos(c[2])[3], 190)
          /\ CornerColor(c[2]) = RoofColor
    /\ \E c \in Corners : IsWallColor(CornerColor(c[2]))

MossDone == tool.fn = "set_vertex_colors_with_moss" /\ tool.pc = "done"

Between(x, lo, hi) == (lo <= x /\ x <= hi) \/ (hi <= x /\ x <= lo)

\* C15: set_vertex_colors_with_moss gives every corner of a polygon whose
\* face-normal z is not above the threshold T exactly the base colour, and
\* every corner of a polygon with normal z > T the colour
\* base*(1-b) + moss*b with b = (nz - T)/(1 - T) = N/D, alpha 1.0 (the
\* channels are kept over the denominator D); for unit normals
\* and T < 1 the factor b lies in [0,1], so each channel lies between the
\* base and the moss value, and nz = 1 gives exactly the moss colour.
C15_MossBlend ==
    MossDone =>
        \A c \in Corners :
            LET nz == mesh_objects[1].polygons[c[1]].normal_z
                N == nz * 10 - tool.moss_threshold * 1024
                D == (10 - tool.moss_threshold) * 1024
                col == CornerColor(c[2])
                base == tool.base_color
                moss == tool.moss_color
            IN  /\ N <= 0 => col = base
                /\ N > 0 =>
                      /\ N <= D /\ col.den = D
                      /\ col.r = base.r * (D - N) + moss.r * N
                      /\ col.g = base.g * (D - N) + moss.g * N
                      /\ col.b = base.b * (D - N) + moss.b * N
                      /\ col.a = 1000 * col.den
                      /\ Between(col.r, base.r * col.den, moss.r * col.den)
                      /\ Between(col.g, base.g * col.den, moss.g * col.den)
                      /\ Between(col.b, base.b * col.den, moss.b * col.den)
                /\ nz = 1024 =>
                      /\ col.r = moss.r * col.den
                      /\ col.g = moss.g * col.den
                      /\ col.b = moss.b * col.den

\* one polygon blended strictly between base and moss, one with nz = 1
C15_Witness ==
    /\ MossDone
    /\ Len(mesh_objects[1].polygons) = 2
    /\ tool.moss_threshold = 6
    /\ mesh_objects[1].polygons[1].normal_z = 820
    /\ mesh_objects[1].polygons[2].normal_z = 1024
    /\ CornerColor(1).r < tool.base_color.r * CornerColor(1).den
    /\ CornerColor(1).r > tool.moss_color.r * CornerColor(1).den

\* two corners on the same vertex, or on vertices at equal positions, have
\* the same colour, the colour cottage_color gives the position
C20_SamePositionSameColour ==
    PositionalDone =>
        \A c, d \in Corners :
            /\ CornerPos(c[2]) = CornerPos(d[2]) => CornerColor(c[2]) = CornerColor(d[2])
            /\ CornerColor(c[2]) = cottage_color(CornerPos(c[2]), tool.offset_x)

\* no step of a second colouring changes a colour
C20_RecolouringChangesNothing ==
    (tool.fn = "set_vertex_colors" /\ tool.calls = 2) => UNCHANGED mesh_objects

\* C20: the colour a positional classifier assigns to a corner depends only
\* on the corner's vertex position and the asset's offset_x: two corners that
\* reference the same vertex (or equal positions) get the same colour, and
\* colouring the same mesh again gives the same colours.
C20_ColourIsFunctionOfPosition ==
    [][C20_RecolouringChangesNothing]_vars /\ []C20_SamePositionSameColour

\* coloured twice; corners 1 and 4 share vertex 1, corner 6 is on another
\* vertex at the same position
C20_Witness ==
    /\ PositionalDone /\ tool.calls = 2
    /\ Len(mesh_objects[1].polygons) = 2
    /\ mesh_objects[1].loops[1] = mesh_objects[1].loops[4]
    /\ mesh_objects[1].loops[6] # mesh_objects[1].loops[1]
    /\ CornerPos(6) = CornerPos(1)
    /\ CornerColor(6) = CornerColor(1)
    /\ CornerColor(2) # CornerColor(1)

\* ------------------------------------------------------------------------
\* Claims on set_origin_bottom
\* ------------------------------------------------------------------------
OriginDone == tool.fn = "set_origin_bottom" /\ tool.pc = "done"

Centre(axis) ==
    Min(Coords(mesh_objects[1].vertices, axis))
        + Max(Coords(mesh_objects[1].vertices, axis))

Lowest == Min(Coords(mesh_objects[1].vertices, 3))

\* C16: after set_origin_bottom(obj, z_offset) on a mesh with at least one
\* vertex, the X and Y bounding-box centres of the vertices are 0 and the
\* lowest vertex sits at Z = 0 when z_offset is 0, or at the caller-supplied
\* offset otherwise.
C16_OriginAtBottom ==
    OriginDone =>
        /\ Centre(1) = 0
        /\ Centre(2) = 0
        /\ Lowest = tool.z_offset

\* what the code does: the lowest vertex ends at minus z_offset
C16_LowestAtMinusOffset ==
    OriginDone =>
        /\ Centre(1) = 0
        /\ Centre(2) = 0
        /\ Lowest = -tool.z_offset
        /\ mesh_objects[1].location = <<0, 0, 0>>

\* ------------------------------------------------------------------------
\* Claims on add_part
\* ------------------------------------------------------------------------
UnsupportedCall ==
    /\ tool.fn = "add_part" /\ tool.pc = "call"
    /\ tool.prim \notin supported_kinds(tool.file)

C17_UnsupportedKindAborts ==
    UnsupportedCall =>
        /\ tool'.pc = "raised"
        /\ parts' = parts
        /\ mesh_objects' = mesh_objects

\* C17: add_part called with a primitive kind that is not one of the
\* supported kinds is a fatal error: the generation run aborts, no part is
\* appended to the parts list, and no already existing object is renamed,
\* rescaled or appended a second time.
C17_UnsupportedKindIsFatal == [][C17_UnsupportedKindAborts]_vars

\* what the code does when an object is active: the call returns, and the
\* object made last is renamed, rescaled and appended again
C17_ActiveObjectReused ==
    (UnsupportedCall /\ active_object # 0) =>
        /\ tool'.pc # "raised"
        /\ Len(mesh_objects') = Len(mesh_objects)
        /\ mesh_objects'[active_object].name = tool.name
        /\ parts' = Append(parts, active_object)

C17_UnsupportedKindReusesActive == [][C17_ActiveObjectReused]_vars

\* ------------------------------------------------------------------------
\* Claims on displace_vertices
\* ------------------------------------------------------------------------
Displacing == tool.fn = "displace_vertices"

\* C18: displace_vertices called on the same mesh with the same seed gives
\* the same vertex positions, whatever was drawn before from the
\* module-level generator and whatever other calls of displace_vertices
\* came before.
C18_SameSeedSamePositions ==
    (Displacing /\ tool.pc = "idle" /\ {1, 2} \subseteq tool.done) =>
        mesh_objects[1].vertices = mesh_objects[2].vertices

\* both calls are done, another call and draws from the module-level
\* generator came between them, and the vertices have moved
C18_Witness ==
    /\ Displacing /\ tool.pc = "idle" /\ tool.done = {1, 2, 3}
    /\ random_draws > 0
    /\ mesh_objects[1].vertices = mesh_objects[2].vertices
    /\ mesh_objects[1].vertices # Facet.vertices
    /\ mesh_objects[3].vertices # mesh_objects[1].vertices

InRange(d, amount) == -amount <= d /\ d <= amount

\* the step moves vertex tool.i of the mesh of the call
DisplaceStep ==
    /\ Displacing /\ tool.pc = "loop"
    /\ tool.i <= Len(mesh_objects[tool.call].vertices)

C19_VertexMovedWithinAmount ==
    DisplaceStep =>
        LET obj == mesh_objects[tool.call]
            co == obj.vertices[tool.i]
            co2 == mesh_objects'[tool.call].vertices[tool.i]
            n == obj.normals[tool.i]
            a == tool.amount
            value(k) == -a + (2 * a * draw(tool.rng, k)) \div U
        IN  /\ IF tool.variant = "generate_rocks"
               THEN /\ InRange(value(1), a)
                    /\ \A c \in 1..3 : (co2[c] - co[c]) * 1000 = n[c] * value(1)
               ELSE \A c \in 1..3 : /\ InRange(co2[c] - co[c], a)
                                    /\ co2[c] - co[c] = value(c)
            /\ \A j \in DOMAIN obj.vertices :
                 j # tool.i => mesh_objects'[tool.call].vertices[j] = obj.vertices[j]

C19_TopologyKept ==
    Displacing =>
        \A o \in DOMAIN mesh_objects :
            /\ Len(mesh_objects[o].vertices) = Len(Facet.vertices)
            /\ mesh_objects[o].polygons = Facet.polygons
            /\ mesh_objects[o].loops = Facet.loops

\* C19: the rock variant moves every vertex along its own normal by one
\* scalar of [-amount, amount]; the tree variant moves x, y and z of every
\* vertex each by a scalar of [-amount, amount] of its own, drawn in that
\* order; neither changes the number of vertices or the polygons.
C19_BoundedDisplacement == [][C19_VertexMovedWithinAmount]_vars /\ []C19_TopologyKept

\* a call has returned and has moved both vertices of its mesh
C19_Witness ==
    /\ Displacing /\ tool.pc = "idle" /\ tool.done = {1}
    /\ \A j \in DOMAIN Facet.vertices :
         mesh_objects[1].vertices[j] # Facet.vertices[j]

\* ------------------------------------------------------------------------
\* Claims on the keyposes of Walk and Run
\* ------------------------------------------------------------------------
\* the frames of the contact poses and of the passing poses
ContactFrames == <<{}, {1, 15, 30}, {1, 10, 20}>>

PassingFrames == <<{}, {8, 23}, {5, 15}>>

\* the keys of the Hips offset in clip i, and their vertical components
HipsKeys(i) == fcurve_keys(TrackKeys(i), "Hips", "location")

HipsHeights(i) == {k.value[3] : k \in HipsKeys(i)}

\* C21: in Walk and in Run the vertical Hips offset is at its minimum over
\* the keyframes of the clip at the contact frames (Walk 1, 15, 30; Run 1,
\* 10, 20) and at its maximum at the passing frames (Walk 8, 23; Run 5, 15).
C21_HipsBob ==
    \A i \in 2..3 : (Pushed(i) /\ "Hips" \in DOMAIN pose) =>
        /\ {k.frame : k \in HipsKeys(i)} = ContactFrames[i] \cup PassingFrames[i]
        /\ \A k \in HipsKeys(i) :
              /\ k.frame \in ContactFrames[i] => k.value[3] = Min(HipsHeights(i))
              /\ k.frame \in PassingFrames[i] => k.value[3] = Max(HipsHeights(i))

\* Walk and Run are pushed on a skeleton with Hips, and the Hips go up from
\* contact to passing
C21_Witness ==
    /\ Pushed(3) /\ "Hips" \in DOMAIN pose
    /\ CurveAt(2, "Hips", "location", 1)[3] < CurveAt(2, "Hips", "location", 8)[3]
    /\ CurveAt(3, "Hips", "location", 10)[3] < CurveAt(3, "Hips", "location", 15)[3]

\* the frames of the four keyposes (left contact, left passing, right
\* contact, right passing) in Walk and in Run
KeyposeFrames == <<<<>>, <<1, 8, 15, 23>>, <<1, 5, 10, 15>>>>

RotationKeysAt(i, frame) ==
    {k \in TrackKeys(i) : k.data_path = "rotation_euler" /\ k.frame = frame}

HipsAmplitude(i) == Max(HipsHeights(i)) - Min(HipsHeights(i))

\* C22: for every bone and each of the four keyposes, every Euler component
\* of the rotation in Run is at least as large in magnitude as that of the
\* same keypose of Walk, and the amplitude of the hip bob (maximum minus
\* minimum Hips offset) of Run is strictly larger than that of Walk.
C22_RunLargerThanWalk ==
    Pushed(3) =>
        /\ \A j \in 1..4 :
              \A w \in RotationKeysAt(2, KeyposeFrames[2][j]) :
                  \E r \in RotationKeysAt(3, KeyposeFrames[3][j]) :
                      /\ r.bone = w.bone
                      /\ \A c \in 1..3 : Abs(r.value[c]) >= Abs(w.value[c])
        /\ "Hips" \in DOMAIN pose => HipsAmplitude(3) > HipsAmplitude(2)

\* Run is pushed on the full skeleton; a rotation of Run is larger than that
\* of Walk, another one is equal
C22_Witness ==
    /\ Pushed(3) /\ FullSkeleton
    /\ Abs(CurveAt(3, "UpperLeg_L", "rotation_euler", 10)[1])
          > Abs(CurveAt(2, "UpperLeg_L", "rotation_euler", 15)[1])
    /\ CurveAt(3, "Foot_R", "rotation_euler", 5)
          = CurveAt(2, "Foot_R", "rotation_euler", 8)
    /\ HipsAmplitude(2) > 0

\* ------------------------------------------------------------------------
\* Further claims on the skin binder
\* ------------------------------------------------------------------------
\* candidate i is a bone whose squared length is below 1e-8
Degenerate(i) ==
    LET bd == bone_data_of(arm_bones)
        ab == VSub(bd[i].tail, bd[i].head)
    IN  Dot(ab, ab) * (EPS_INV \div CM2) < 1

\* the squared distance of vertex v to the head of candidate i
HeadDist(v, i) ==
    LET pa == VSub(verts[v], bone_data_of(arm_bones)[i].head)
    IN  [num |-> Dot(pa, pa), den |-> 1]

BoundTo(v, i) ==
    v_groups[v] = {[group |-> bone_data_of(arm_bones)[i].name, weight |-> ONE]}

\* C23: for a bone whose squared length is below 1e-8 (head and tail
\* coincide) closest_point_on_segment returns the head, without a division
\* by the length, in both copies; the bone still takes part in the choice
\* of the nearest bone, as a point at its head: the chosen bone is not
\* farther than that head, and a head strictly nearer than every other
\* candidate is chosen.
C23_DegenerateBoneIsPoint ==
    \A v \in Bound : \A i \in DOMAIN bone_data_of(arm_bones) :
        Degenerate(i) =>
            LET bd == bone_data_of(arm_bones)
                pt == closest_point_on_segment(verts[v], bd[i].head, bd[i].tail)
            IN  /\ pt.n = 0 /\ pt.d = 1
                /\ PointNum(pt) = bd[i].head
                /\ anim_closest_point_on_segment(verts[v], bd[i].head, bd[i].tail) = pt
                /\ BoneDist(v, i) = HeadDist(v, i)
                /\ \A j \in DOMAIN bd :
                      BoundTo(v, j) => ~FracLess(HeadDist(v, i), BoneDist(v, j))
                /\ (\A j \in DOMAIN bd \ {i} : FracLess(HeadDist(v, i), BoneDist(v, j)))
                      => BoundTo(v, i)

\* a vertex off the head of a zero-length bone is bound to it, a regular
\* bone being farther
C23_Witness ==
    /\ bpc = "done"
    /\ \E v \in DOMAIN verts : \E i, j \in DOMAIN bone_data_of(arm_bones) :
          /\ Degenerate(i) /\ ~Degenerate(j)
          /\ BoundTo(v, i)
          /\ verts[v] # bone_data_of(arm_bones)[i].head
          /\ FracLess(HeadDist(v, i), BoneDist(v, j))

BinderPast == bpc \in {"loop", "done", "rebound"}

BinderReturned == bpc \in {"done", "rebound"}

\* C24: the bone named Root is never a candidate: once the groups are made
\* there is no vertex group named Root and no vertex is bound to Root, also
\* when the segment of Root is the nearest one to a vertex; the vertex
\* groups of the mesh are exactly the bones of the armature other than Root.
C24_RootNeverCandidate ==
    BinderPast =>
        /\ "Root" \notin Range(vertex_groups)
        /\ \A v \in DOMAIN verts : \A g \in v_groups[v] : g.group # "Root"
        /\ Range(vertex_groups) = {arm_bones[i].name : i \in DOMAIN arm_bones} \ {"Root"}
        /\ Len(vertex_groups) = Cardinality(Range(vertex_groups))

\* a vertex lies on the segment of Root and is bound to a bone farther away
C24_Witness ==
    /\ bpc = "done"
    /\ Len(arm_bones) >= 2 /\ arm_bones[1] = RootBone
    /\ \E v \in DOMAIN verts :
          /\ segment_dist(verts[v], closest_point_on_segment(verts[v], RootBone.head,
                                                             RootBone.tail)).num = 0
          /\ v_groups[v] # {}
          /\ \A i \in DOMAIN bone_data_of(arm_bones) : BoneDist(v, i).num > 0

\* C25: when the armature has no bone other than Root,
\* assign_weights_by_bones returns normally, the mesh ends with no vertex
\* groups (the old ones are cleared) and every vertex is left unassigned.
C25_NoCandidateNoGroups ==
    (~HasCandidateBone /\ BinderPast) =>
        /\ vertex_groups = <<>>
        /\ \A v \in DOMAIN verts : v_groups[v] = {}
        /\ vi <= Len(verts) + 1

\* the function has returned on an armature of Root alone and a mesh of two
\* vertices
C25_Witness ==
    /\ bpc = "done"
    /\ arm_bones = <<RootBone>>
    /\ Len(verts) = 2
    /\ vi = 3
    /\ vertex_groups = <<>>

\* C26: assign_weights_by_bones of rig_and_export.py and the one of
\* generate_animations.py compute the same assignment for every mesh and
\* armature: the same candidates, the same closest point (with the same
\* guard of short segments), the same nearest bone under ties, and the same
\* groups from any prior groups.
C26_CopiesAgree ==
    /\ anim_bone_data_of(arm_bones) = bone_data_of(arm_bones)
    /\ \A v \in DOMAIN verts :
          /\ \A i \in DOMAIN arm_bones :
                anim_closest_point_on_segment(verts[v], arm_bones[i].head,
                                              arm_bones[i].tail)
                  = closest_point_on_segment(verts[v], arm_bones[i].head,
                                             arm_bones[i].tail)
          /\ anim_nearest_bone_loop(verts[v], anim_bone_data_of(arm_bones), 1, NONE, INF)
                = best_bone_of(verts[v], bone_data_of(arm_bones))
    /\ \A prior \in PriorGroupings :
          LET old == [v \in DOMAIN verts |-> prior]
          IN  anim_assign_weights_by_bones(old, verts, arm_bones)
                = assign_weights_by_bones(old, verts, arm_bones)

\* both copies have run on a mesh with a vertex at the same distance of two
\* bones, a zero-length bone among the candidates
C26_Witness ==
    /\ bpc = "rebound"
    /\ Len(verts) >= 1
    /\ Len(bone_data_of(arm_bones)) = 2
    /\ BoneDist(1, 1) = BoneDist(1, 2)
    /\ \E i \in 1..2 : Degenerate(i)
    /\ BoundTo(1, 1)

\* ------------------------------------------------------------------------
\* Claims on the skeleton
\* ------------------------------------------------------------------------
\* the armature of rig_and_export while and after create_armature builds it
BuildingArmature ==
    /\ script = "rig_and_export"
    /\ pc \in {"edit_bones", "skin_mesh", "set_rest_pose", "export", "done"}

BoneIndex(name) == CHOOSE j \in DOMAIN arm_bones : arm_bones[j].name = name

\* the bone reached from bone i by n parent links (the bone itself when it
\* has no parent)
RECURSIVE Ancestor(_, _)
Ancestor(i, n) ==
    IF n = 0 \/ arm_bones[i].parent = NONE THEN i
    ELSE Ancestor(BoneIndex(arm_bones[i].parent), n - 1)

\* C27: the skeleton create_armature builds from BONES is a rooted tree
\* with exactly one parentless bone, Root: the declared parent of every bone
\* stands earlier in BONES, so every declared parent link is set, and the
\* parent links lead from every bone to Root without a cycle.
C27_SkeletonIsRootedTree ==
    BuildingArmature =>
        /\ \A i \in DOMAIN arm_bones :
              /\ arm_bones[i].name = BONES[i].name
              /\ arm_bones[i].parent = BONES[i].parent
              /\ (arm_bones[i].parent = NONE) = (arm_bones[i].name = "Root")
              /\ arm_bones[i].parent # NONE =>
                    \E j \in 1..(i - 1) : arm_bones[j].name = arm_bones[i].parent
              /\ arm_bones[Ancestor(i, i - 1)].name = "Root"
        /\ \A i, j \in DOMAIN arm_bones :
              arm_bones[i].name = arm_bones[j].name => i = j
        /\ pc # "edit_bones" =>
              /\ Len(arm_bones) = Len(BONES)
              /\ Cardinality({i \in DOMAIN arm_bones : arm_bones[i].parent = NONE}) = 1

\* the armature is complete; Foot_L hangs four links below Root
C27_Witness ==
    /\ BuildingArmature /\ pc # "edit_bones"
    /\ Len(arm_bones) = Len(BONES)
    /\ arm_bones[BoneIndex("Foot_L")].parent = "LowerLeg_L"
    /\ arm_bones[Ancestor(BoneIndex("Foot_L"), 3)].name = "Hips"
    /\ arm_bones[Ancestor(BoneIndex("Foot_L"), 4)].name = "Root"

\* ------------------------------------------------------------------------
\* Claims on a mesh without vertices
\* ------------------------------------------------------------------------
IsEmptyMesh(obj) == obj.vertices = <<>> /\ obj.polygons = <<>>

\* C28: a mesh without vertices and polygons goes through both steps after
\* the merge without an error: set_vertex_colors writes no colour and
\* returns normally, and set_origin_bottom returns normally and leaves the
\* mesh as it is.  Here: the part on set_origin_bottom.
C28_EmptyMeshOriginNoError ==
    (tool.fn = "set_origin_bottom" /\ IsEmptyMesh(mesh_objects[1])) =>
        /\ tool.pc # "raised"
        /\ mesh_objects[1].vertices = <<>>

\* the part of C28 on set_vertex_colors, which holds: the loop over the
\* polygons is not entered
C28_EmptyMeshNotColoured ==
    (tool.fn = "set_vertex_colors" /\ IsEmptyMesh(mesh_objects[1])) =>
        /\ mesh_objects[1].colors = <<>>
        /\ tool.pc \in {"start", "loop", "done"}

\* set_vertex_colors has returned on the mesh without vertices
C28_EmptyMeshColourReturns ==
    /\ tool.fn = "set_vertex_colors" /\ tool.pc = "done"
    /\ IsEmptyMesh(mesh_objects[1])

\* ------------------------------------------------------------------------
\* Claims on the runs of generate_animations on its own output
\* ------------------------------------------------------------------------
ClipNames == [i \in DOMAIN CLIPS |-> CLIPS[i].name]

\* C29: after main of generate_animations the armature carries exactly four
\* NLA tracks, Idle, Walk, Run and Jump, and there is no other action,
\* whatever actions and tracks the imported file held; a run of the script
\* on its own output (the input path is the output path) does not add or
\* double clips: its actions and tracks are those of the first run.
C29_FourClipsWhateverImported ==
    /\ (script = "generate_animations" /\ pc = "create_action" /\ clip = 1) =>
          (DOMAIN actions = {} /\ nla_tracks = <<>>)
    /\ (script = "generate_animations" /\ pc = "done") =>
          /\ [i \in DOMAIN nla_tracks |-> nla_tracks[i].name] = ClipNames
          /\ \A i \in DOMAIN nla_tracks :
                /\ Len(nla_tracks[i].strips) = 1
                /\ nla_tracks[i].strips[1].action = ClipNames[i]
          /\ DOMAIN actions = Range(ClipNames)
          /\ \A n \in DOMAIN actions : actions[n] \cap StaleKeys = {}
          /\ "run" \in DOMAIN input_file =>
                /\ gltf_actions(gltf_animations(nla_tracks, actions)) = input_file.actions
                /\ gltf_tracks(gltf_animations(nla_tracks, actions)) = input_file.tracks

\* the second run, on the output of a first run that had imported a file
\* with stale clips, has ended
C29_Witness ==
    /\ script = "generate_animations" /\ pc = "done"
    /\ "run" \in DOMAIN input_file
    /\ Len(nla_tracks) = 4
    /\ \A n \in DOMAIN actions : actions[n] # {}
    /\ FullSkeleton

\* ------------------------------------------------------------------------
\* An asset authored at offset_x: add_part for every part, join_parts,
\* set_vertex_colors with the classifier of the asset, set_origin_bottom.
\* Coordinates are float32 values, held as integers in units of 2^-28 m; a
\* literal of the source is given in hundredths of a metre.
\* ------------------------------------------------------------------------

\* the literal c / 100 in units of 2^-28, rounded down, and what is left in
\* hundredths of a unit (2^28 = 100 * 2684354 + 56)
Lit28(c) == c * 2684354 + (c * 56) \div 100

LitRest(c) == (c * 56) % 100

\* the float32 nearest to the literal c / 100, c >= 0
F32LiteralMag(c) ==
    LET n == Lit28(c)
        u == F32Ulp(n, 1)
        q == n \div u
        r == n % u
        twice == 2 * (100 * r + LitRest(c))
        up == twice > 100 * u \/ (twice = 100 * u /\ q % 2 = 1)
    IN  (IF up THEN q + 1 ELSE q) * u

\* the float32 a Python float c / 100 becomes in a property of an object
F32Literal(c) == IF c < 0 THEN -F32LiteralMag(-c) ELSE F32LiteralMag(c)

\* x > c / 100 and x < c / 100 for a float32 x and a literal c >= 0, as
\* Python compares them (in double precision, where x is exact)
GtLit(x, c) == x > Lit28(c)

LtLit(x, c) == IF LitRest(c) = 0 THEN x < Lit28(c) ELSE x <= Lit28(c)

\* the vertices of primitive_cube_add (size 2) in units of the scale, the
\* vertex of every corner and the corners of every face
CubeSigns ==
    <<(<<-1, -1, -1>>), (<<-1, -1, 1>>), (<<-1, 1, -1>>), (<<-1, 1, 1>>),
      (<<1, -1, -1>>), (<<1, -1, 1>>), (<<1, 1, -1>>), (<<1, 1, 1>>)>>

CubeLoops ==
    <<1, 2, 4, 3,  3, 4, 8, 7,  7, 8, 6, 5,  5, 6, 2, 1,  3, 7, 5, 1,  8, 4, 2, 6>>

CubePolygons ==
    [f \in 1..6 |->
        [normal_z |-> IF f = 5 THEN -1024 ELSE IF f = 6 THEN 1024 ELSE 0,
         loop_indices |-> [k \in 1..4 |-> 4 * (f - 1) + k]]]

\* add_part(parts, name, 'cube', (offset_x + dx, y, z), scl): loc and scl
\* become float32 in obj.location and obj.scale, and transform_apply puts
\* scale * co + location, rounded to float32, into every vertex
cube_part(part, offset_x) ==
    LET loc == [a \in 1..3 |->
                   F32Literal(part.loc[a] + (IF a = 1 THEN 100 * offset_x ELSE 0))]
        scl == [a \in 1..3 |-> F32Literal(part.scl[a])]
    IN  [Mesh([i \in 1..8 |->
                 [a \in 1..3 |-> F32Round(CubeSigns[i][a] * scl[a] + loc[a])]],
              [i \in 1..8 |-> <<0, 0, 1024>>], CubeLoops, CubePolygons, <<>>)
         EXCEPT !.name = part.name]

\* join_parts(parts, final_name): the meshes of the parts one after the
\* other in the mesh of parts[0]
RECURSIVE join_parts(_, _)
join_parts(objects, final_name) ==
    IF Len(objects) = 1
    THEN [objects[1] EXCEPT !.name = final_name]
    ELSE LET head == join_parts(SubSeq(objects, 1, Len(objects) - 1), final_name)
             last == objects[Len(objects)]
             nv == Len(head.vertices)
             nl == Len(head.loops)
         IN  [head EXCEPT
                !.vertices = @ \o last.vertices,
                !.normals = @ \o last.normals,
                !.loops = @ \o [i \in DOMAIN last.loops |-> last.loops[i] + nv],
                !.polygons = @ \o [f \in DOMAIN last.polygons |->
                                      [normal_z |-> last.polygons[f].normal_z,
                                       loop_indices |->
                                          [k \in DOMAIN last.polygons[f].loop_indices |->
                                              last.polygons[f].loop_indices[k] + nl]]]]

\* "grain = math.sin(pos.z * 15) * 0.02" is a function of pos.z alone: the
\* colour keeps pos.z in place of its value
Grained(r, g, b, a, z) == [r |-> r, g |-> g, b |-> b, a |-> a, den |-> 1, grain |-> z]

\* cottage_color(pos) of generate_cottage(offset_x), on float32 positions
cottage_color_f32(pos, offset_x) ==
    LET lx == pos[1] - offset_x * 2^28
    IN  IF GtLit(lx, 90) /\ GtLit(pos[2], 100) /\ GtLit(pos[3], 200)
        THEN RGBA(450, 420, 400, 1000)
        ELSE IF GtLit(pos[3], 185)
        THEN RGBA(320, 220, 120, 1000)
        ELSE IF LtLit(pos[3], 32)
        THEN RGBA(500, 480, 450, 1000)
        ELSE IF LtLit(Abs(lx), 32) /\ LtLit(Abs(pos[2]), 10) /\ LtLit(pos[3], 135)
        THEN RGBA(300, 180, 80, 1000)
        ELSE IF GtLit(lx, 135) /\ GtLit(pos[3], 100) /\ LtLit(pos[3], 145)
        THEN RGBA(280, 160, 60, 1000)
        ELSE IF GtLit(pos[3], 30) /\ LtLit(pos[3], 190)
        THEN Grained(550, 380, 200, 1000, pos[3])
        ELSE RGBA(500, 350, 180, 1000)

\* entrance_color(pos) of generate_cave_entrance(offset_x);
\* "abs(abs(lx) - 1.30) > 0.20" is abs(lx) > 1.50 or abs(lx) < 1.10
entrance_color_f32(pos, offset_x) ==
    LET lx == pos[1] - offset_x * 2^28
    IN  IF LtLit(pos[3], 40) /\ (GtLit(Abs(lx), 140) \/ GtLit(Abs(pos[2]), 25))
        THEN RGBA(220, 300, 180, 1000)
        ELSE IF GtLit(pos[3], 300) /\ LtLit(Abs(lx), 40)
        THEN RGBA(420, 400, 380, 1000)
        ELSE IF GtLit(pos[3], 260)
        THEN RGBA(380, 350, 320, 1000)
        ELSE IF GtLit(pos[3], 255) /\ LtLit(pos[3], 285) /\ LtLit(Abs(lx), 100)
        THEN RGBA(280, 180, 100, 1000)
        ELSE IF (GtLit(Abs(lx), 150) \/ LtLit(Abs(lx), 110))
                /\ GtLit(pos[3], 20) /\ LtLit(pos[3], 250)
        THEN RGBA(400, 370, 330, 1000)
        ELSE IF GtLit(Abs(lx), 80)
        THEN Grained(350, 320, 300, 1000, pos[3])
        ELSE IF LtLit(pos[3], 20)
        THEN RGBA(380, 360, 340, 1000)
        ELSE RGBA(360, 330, 300, 1000)

color_func(asset, pos, offset_x) ==
    IF asset = "Cottage" THEN cottage_color_f32(pos, offset_x)
    ELSE entrance_color_f32(pos, offset_x)

\* set_vertex_colors(obj, color_func): every corner gets the colour of the
\* position of its vertex
set_vertex_colors_f32(obj, asset, offset_x) ==
    [obj EXCEPT !.colors =
        [li \in DOMAIN obj.loops |-> color_func(asset, obj.vertices[obj.loops[li]],
                                                offset_x)]]

\* set_origin_bottom(obj): cx = (min(xs) + max(xs)) * 0.5 and "v.co.x -= cx"
\* are exact in double precision and the difference is rounded to float32
\* when it is stored.  v.co.x - cx is half of (x - min) + (x - max), so the
\* coordinates of the result are in units of 2^-29 m.
set_origin_bottom_f32(obj) ==
    LET lo == [a \in 1..3 |-> Min(Coords(obj.vertices, a))]
        hi == [a \in 1..3 |-> Max(Coords(obj.vertices, a))]
    IN  [obj EXCEPT
           !.vertices = [i \in DOMAIN obj.vertices |->
              [a \in 1..3 |->
                 IF a = 3 THEN F32Round(2 * (obj.vertices[i][a] - lo[a]))
                 ELSE F32Round((obj.vertices[i][a] - lo[a])
                               + (obj.vertices[i][a] - hi[a]))]],
           !.location = <<0, 0, 0>>]

\* the cube parts of generate_cottage and of generate_cave_entrance that
\* have no rotation and no dimension below 2^-5 m: name, loc without
\* offset_x, scl
AssetParts ==
    [Cottage |->
        <<[name |-> "CO_Foundation", loc |-> <<0, 0, 15>>, scl |-> <<160, 160, 15>>],
          [name |-> "CO_WallFrontL", loc |-> <<-85, 0, 110>>, scl |-> <<55, 8, 80>>],
          [name |-> "CO_WallLeft", loc |-> <<-140, 75, 110>>, scl |-> <<8, 75, 80>>],
          [name |-> "CO_WallRight", loc |-> <<140, 75, 110>>, scl |-> <<8, 75, 80>>],
          [name |-> "CO_Chimney", loc |-> <<110, 120, 220>>, scl |-> <<15, 15, 40>>]>>,
     CaveEntrance |->
        <<[name |-> "CE_PillarL", loc |-> <<-130, 0, 150>>, scl |-> <<35, 40, 150>>],
          [name |-> "CE_StoneL1", loc |-> <<-155, 15, 40>>, scl |-> <<15, 18, 25>>],
          [name |-> "CE_PillarR", loc |-> <<130, 0, 150>>, scl |-> <<35, 40, 150>>],
          [name |-> "CE_Keystone", loc |-> <<0, 0, 320>>, scl |-> <<30, 35, 25>>],
          [name |-> "CE_BaseL", loc |-> <<-140, 0, 15>>, scl |-> <<50, 50, 15>>]>>]

\* offset_x of the calls: the cottage's 0, the forge's 6 and one between
AssetOffsets == {0, 3, 6}

\* the asset is authored with its first part and one more
AssetChoices ==
    {[asset |-> asset, offset_x |-> offset_x, chosen |-> <<1, k>>] :
        asset \in DOMAIN AssetParts, offset_x \in AssetOffsets, k \in 2..5}

\* the whole of the generator function at offset_x
authored(asset, chosen, offset_x) ==
    set_origin_bottom_f32(
        set_vertex_colors_f32(
            join_parts([k \in DOMAIN chosen |->
                           cube_part(AssetParts[asset][chosen[k]], offset_x)],
                       asset),
            asset, offset_x))

AssetInit ==
    /\ mesh_objects = <<>>
    /\ active_object = 0
    /\ parts = <<>>
    /\ \E c \in AssetChoices :
          tool = [fn |-> "generate_asset", pc |-> "add_part", asset |-> c.asset,
                  offset_x |-> c.offset_x, chosen |-> c.chosen]
    /\ streams = <<>>
    /\ random_draws = 0
    /\ arm_bones = <<>>
    /\ verts = <<>>
    /\ vertex_groups = <<>>
    /\ v_groups = <<>>
    /\ bpc = "uncalled"
    /\ vi = 0
    /\ seg = SegIdle
    /\ RunIdle /\ AnimIdle /\ GenIdle

AssetAddPart ==
    /\ tool.fn = "generate_asset" /\ tool.pc = "add_part"
    /\ Len(parts) < Len(tool.chosen)
    /\ mesh_objects' =
          Append(mesh_objects,
                 cube_part(AssetParts[tool.asset][tool.chosen[Len(parts) + 1]],
                           tool.offset_x))
    /\ active_object' = Len(mesh_objects) + 1
    /\ parts' = Append(parts, Len(mesh_objects) + 1)
    /\ UNCHANGED tool
    /\ PartsUnchanged

AssetJoin ==
    /\ tool.fn = "generate_asset" /\ tool.pc = "add_part"
    /\ Len(parts) = Len(tool.chosen)
    /\ mesh_objects' = <<join_parts([k \in DOMAIN parts |-> mesh_objects[parts[k]]],
                                    tool.asset)>>
    /\ active_object' = 1
    /\ tool' = [tool EXCEPT !.pc = "set_vertex_colors"]
    /\ UNCHANGED parts
    /\ PartsUnchanged

AssetColour ==
    /\ tool.fn = "generate_asset" /\ tool.pc = "set_vertex_colors"
    /\ mesh_objects' = [mesh_objects EXCEPT
                          ![1] = set_vertex_colors_f32(@, tool.asset, tool.offset_x)]
    /\ tool' = [tool EXCEPT !.pc = "set_origin_bottom"]
    /\ UNCHANGED <<active_object, parts>>
    /\ PartsUnchanged

AssetOrigin ==
    /\ tool.fn = "generate_asset" /\ tool.pc = "set_origin_bottom"
    /\ mesh_objects' = [mesh_objects EXCEPT ![1] = set_origin_bottom_f32(@)]
    /\ tool' = [tool EXCEPT !.pc = "done"]
    /\ UNCHANGED <<active_object, parts>>
    /\ PartsUnchanged

AssetNext == AssetAddPart \/ AssetJoin \/ AssetColour \/ AssetOrigin

SpecAsset == AssetInit /\ [][AssetNext]_vars

\* ------------------------------------------------------------------------
\* Claims on the offset an asset is authored at
\* ------------------------------------------------------------------------
AssetDone == tool.fn = "generate_asset" /\ tool.pc = "done"

AtOffsetZero == authored(tool.asset, tool.chosen, 0)

\* C30: an asset built with add_part, coloured by its classifier on
\* lx = pos.x - offset_x and normalised with set_origin_bottom has final
\* vertex positions and corner colours that do not depend on offset_x: at
\* every offset the mesh is the one the same parts give at offset 0.
C30_OffsetIndependent ==
    AssetDone =>
        /\ mesh_objects[1].vertices = AtOffsetZero.vertices
        /\ mesh_objects[1].colors = AtOffsetZero.colors

\* the positions alone, and the colours alone
C30_PositionsOffsetIndependent ==
    AssetDone => mesh_objects[1].vertices = AtOffsetZero.vertices

C30_ColoursOffsetIndependent ==
    AssetDone => mesh_objects[1].colors = AtOffsetZero.colors

\* what does hold at every offset: the bounding box is centred in X and Y
\* and the lowest vertex is at Z = 0
C30_CentredAtEveryOffset ==
    AssetDone =>
        /\ \A a \in 1..2 : Min(Coords(mesh_objects[1].vertices, a))
                             + Max(Coords(mesh_objects[1].vertices, a)) = 0
        /\ Min(Coords(mesh_objects[1].vertices, 3)) = 0
        /\ mesh_objects[1].location = <<0, 0, 0>>

\* and the colours of the cottage's parts are those of offset 0
C30_CottageColoursOffsetIndependent ==
    (AssetDone /\ tool.asset = "Cottage") =>
        mesh_objects[1].colors = AtOffsetZero.colors

====
